---- MODULE Spec2Model ----
(***************************************************************************)
(* The CloudWatch Logs Insights query pipeline of                          *)
(* query_cloudwatch_logs.py: execute_and_save runs execute_query (time     *)
(* resolution, range check, log group validation, start_query), then       *)
(* wait_for_results (the polling loop) and format_results.  One process is *)
(* one call of execute_and_save (or, in SpecConc, one call of              *)
(* wait_for_results) on a CloudWatchLogsQueryExecutor; the executor's      *)
(* fields self.start_time and self.last_update_time are shared by every    *)
(* call made on it.  Time is time.time() in whole seconds, taken to be     *)
(* non-decreasing.                                                         *)
(***************************************************************************)
EXTENDS Integers, Sequences, FiniteSets, TLC

----------------------------------------------------------------------------
\* Bounds of the model.
MaxTime == 6        \* the clock stops advancing here
MaxRows == 1        \* a response carries 0..MaxRows result rows
MaxEpoch == 1       \* resolved time endpoints range over 0..MaxEpoch
MaxGroups == 1      \* a successful validation yields 0..MaxGroups names
ConcWindow == 1     \* SpecConc starts this long before the clock stops

\* Program constants.
PollPeriod == 2
DefaultUpdateInterval == 30
Minute == 60

Procs == {1, 2}
UpdateIntervals == {0, 3, DefaultUpdateInterval}

Statuses == {"Scheduled", "Running", "Complete", "Failed", "Cancelled", "Timeout"}
TerminalStates == {"Complete", "Failed", "Cancelled", "Timeout"}
FailureStates == {"Failed", "Cancelled", "Timeout"}

----------------------------------------------------------------------------
\* Exceptions: the class, the exit status a SystemExit carries, the service's
\* error code when the exception has a response attribute (a botocore
\* ClientError), and the phrases that str(e) contains.
Exc(t, txt) ==
    [type |-> t, exit |-> 0, has_response |-> FALSE, error_code |-> "", text |-> txt]
NoExc == Exc("none", {})
SystemExit(n) ==
    [type |-> "SystemExit", exit |-> n, has_response |-> FALSE, error_code |-> "", text |-> {}]
KeyboardInterrupt == Exc("KeyboardInterrupt", {})
ClientError(c) ==
    [type |-> "ClientError", exit |-> 0, has_response |-> TRUE, error_code |-> c,
     text |-> {"An error occurred", c}]
EndpointConnectionError == Exc("EndpointConnectionError", {"Could not connect to the endpoint URL"})

\* Python's hierarchy: KeyboardInterrupt and SystemExit derive from
\* BaseException only, every other class here from Exception.
IsException(e) == e.type \notin {"none", "KeyboardInterrupt", "SystemExit"}
CloudWatchQueryErrors == {"CloudWatchQueryError", "LogGroupNotFoundError", "QuerySyntaxError"}

\* What the remote service answers to a start_query it rejects, and what a
\* call can raise without any answer of the service.
ClientErrorCodes ==
    {"MalformedQueryException", "InvalidParameterException", "LimitExceededException",
     "ThrottlingException", "ServiceUnavailableException"}
Rejections == {ClientError(c) : c \in ClientErrorCodes}
CallFailures == Rejections \cup {EndpointConnectionError, KeyboardInterrupt}

\* A response of get_query_results: the status and the number of result rows.
Responses == [status : Statuses, results : 0..MaxRows]
NoResponse == [status |-> "none", results |-> 0]

----------------------------------------------------------------------------
VARIABLES
    pc,                     \* each process's position
    clock,                  \* time.time()
    self_start_time,        \* executor field self.start_time
    self_last_update_time,  \* executor field self.last_update_time
    update_interval,        \* parameter of wait_for_results
    start_epoch, end_epoch, \* execute_query's resolved endpoints
    validated_groups,       \* number of names validate_log_groups returned
    query_id,               \* the id start_query returned
    current_time, elapsed,  \* locals of the polling loop
    response,               \* the last response fetched
    returned,               \* what wait_for_results returned
    wake,                   \* when the running time.sleep ends
    raised,                 \* the exception leaving the try block of execute_and_save
    exit_code,              \* the process's exit status
    lines,                  \* the status lines printed, in order
    calls,                  \* the calls made on collaborators and stages, in order
    rejection,              \* what start_query raised
    fetched,                \* the number of status fetches issued
    slept,                  \* the durations asked of time.sleep, in order
    own_start, own_last,    \* this call's own start and last-update instants
    checked,                \* the number of responses "Check completion" has seen
    fetch_failed,           \* which fetch raised (0: none did)
    completed,              \* the stages that returned normally
    interrupted,            \* a user interrupt hit this process
    fail_kind,              \* the failure the run met first
    log_groups,             \* validate_log_groups: the patterns passed in
    catalog,                \* the log group names the service holds, in discovery order
    vpc,                    \* position in execute_query's validation and submission
    next_pattern,           \* the index of the pattern the for loop takes next
    validated_names,        \* validate_log_groups' local list validated_groups
    lookups,                \* the prefixes sent to describe_log_groups, in order
    warning,                \* the count the truncation warning cites (0: no warning)
    v_raised,               \* the exception that left validate_log_groups
    eq_raised,              \* the exception that left execute_query for it
    sq_called, sq_names     \* start_query was called, and its logGroupNames

validate_vars == <<log_groups, catalog, vpc, next_pattern, validated_names,
                   lookups, warning, v_raised, eq_raised, sq_called, sq_names>>

\* parse_time, as execute_query calls it.
VARIABLES
    start_time,             \* the text passed to parse_time
    now_ms,                 \* the instant of the call, milliseconds since the epoch
    local_zone,             \* the process's local time zone
    tpc,                    \* position in execute_query's "Convert times"
    parsed,                 \* what parse_time did: rule, return value or exception
    convert_raised          \* the exception that left execute_query for it

time_vars == <<start_time, now_ms, local_zone, tpc, parsed, convert_raised>>

\* format_results.
VARIABLES
    results,                \* the rows passed to format_results
    format,                 \* the format asked for
    output_file,            \* an output file was named
    exclude_metadata,       \* parameter exclude_metadata
    fpc,                    \* position in format_results
    sorted_fields,          \* local sorted_fields
    output,                 \* the lines written to the file or printed as the rendering
    no_results,             \* "No results returned from query" was printed
    format_raised           \* the exception that left format_results

format_vars == <<results, format, output_file, exclude_metadata, fpc, sorted_fields,
                 output, no_results, format_raised>>

\* The Athena executor.
VARIABLES
    no_download,            \* main was given --no-download
    apc,                    \* position in main, execute_query and the wait loop
    observed,               \* the states get_query_execution reported, in order
    sleeps,                 \* the durations asked of time.sleep, in order
    athena_exit,            \* the status passed to sys.exit (-1: not called)
    athena_raised,          \* the exception no handler caught
    downloads               \* the calls of download_results_from_s3

athena_vars == <<no_download, apc, observed, sleeps, athena_exit, athena_raised, downloads>>

\* The state of the function-level specifications.
fn_vars == <<validate_vars, time_vars, format_vars, athena_vars>>

vars == <<fn_vars, pc, clock, self_start_time, self_last_update_time, update_interval,
          start_epoch, end_epoch, validated_groups, query_id, current_time,
          elapsed, response, returned, wake, raised, exit_code, lines, calls,
          rejection, fetched, slept, own_start, own_last, checked, fetch_failed,
          completed, interrupted, fail_kind>>

exec_vars == <<self_start_time, self_last_update_time>>
query_vars == <<start_epoch, end_epoch, validated_groups, query_id, rejection>>
loop_vars == <<current_time, elapsed, response, returned, wake, lines, fetched,
               slept, own_start, own_last, checked, fetch_failed>>
ctl_vars == <<raised, fail_kind, interrupted>>

\* The state of one process before its call starts.
Fresh(first_pc, now) ==
    /\ clock = now
    /\ self_start_time = "None"
    /\ self_last_update_time = "None"
    /\ pc = first_pc
    /\ update_interval \in [Procs -> UpdateIntervals]
    /\ start_epoch = [p \in Procs |-> 0]
    /\ end_epoch = [p \in Procs |-> 0]
    /\ validated_groups = [p \in Procs |-> 0]
    /\ current_time = [p \in Procs |-> 0]
    /\ elapsed = [p \in Procs |-> 0]
    /\ response = [p \in Procs |-> NoResponse]
    /\ returned = [p \in Procs |-> NoResponse]
    /\ wake = [p \in Procs |-> 0]
    /\ raised = [p \in Procs |-> NoExc]
    /\ exit_code = [p \in Procs |-> -1]
    /\ lines = [p \in Procs |-> <<>>]
    /\ calls = [p \in Procs |-> <<>>]
    /\ rejection = [p \in Procs |-> NoExc]
    /\ fetched = [p \in Procs |-> 0]
    /\ slept = [p \in Procs |-> <<>>]
    /\ own_start = [p \in Procs |-> 0]
    /\ own_last = [p \in Procs |-> 0]
    /\ checked = [p \in Procs |-> 0]
    /\ fetch_failed = [p \in Procs |-> 0]
    /\ completed = [p \in Procs |-> {}]
    /\ interrupted = [p \in Procs |-> FALSE]
    /\ fail_kind = [p \in Procs |-> "none"]

\* No call of validate_log_groups is under way.
ValidateIdle ==
    /\ log_groups = <<>>
    /\ catalog = <<>>
    /\ vpc = "idle"
    /\ next_pattern = 1
    /\ validated_names = <<>>
    /\ lookups = <<>>
    /\ warning = 0
    /\ v_raised = NoExc
    /\ eq_raised = NoExc
    /\ sq_called = FALSE
    /\ sq_names = <<>>

\* No call of parse_time is under way.
TimeIdle ==
    /\ start_time = <<>>
    /\ now_ms = 0
    /\ local_zone = [before |-> 0, after |-> 0, at |-> 0]
    /\ tpc = "idle"
    /\ parsed = [rule |-> 0, out |-> "next", value |-> 0, exc |-> NoExc]
    /\ convert_raised = NoExc

\* No call of format_results is under way.
FormatIdle ==
    /\ results = <<>>
    /\ format = "table"
    /\ output_file = FALSE
    /\ exclude_metadata = FALSE
    /\ fpc = "idle"
    /\ sorted_fields = <<>>
    /\ output = <<>>
    /\ no_results = FALSE
    /\ format_raised = NoExc

\* No Athena query is under way.
AthenaIdle ==
    /\ no_download = FALSE
    /\ apc = "idle"
    /\ observed = <<>>
    /\ sleeps = <<>>
    /\ athena_exit = -1
    /\ athena_raised = NoExc
    /\ downloads = 0

FnIdle == ValidateIdle /\ TimeIdle /\ FormatIdle /\ AthenaIdle

\* main: one executor, one call of execute_and_save.
Init ==
    /\ FnIdle
    /\ Fresh([p \in Procs |-> IF p = 1 THEN "parse_time" ELSE "idle"], 0)
    /\ update_interval[2] = DefaultUpdateInterval
    /\ query_id = [p \in Procs |-> 0]

----------------------------------------------------------------------------
\* A step ends normally and control goes to next.
Goto(p, next) ==
    /\ pc' = [pc EXCEPT ![p] = next]
    /\ UNCHANGED <<ctl_vars, fn_vars>>

\* A step raised e, and out is what leaves the try statement around it: out
\* leaves the try block of execute_and_save too, unless the handler
\* swallowed e (NoExc) and control goes on to next.
Fail(p, e, out, kind, next) ==
    /\ interrupted' = [interrupted EXCEPT ![p] = @ \/ (e = KeyboardInterrupt)]
    /\ fail_kind' = [fail_kind EXCEPT ![p] =
                        IF @ # "none" THEN @
                        ELSE IF e = KeyboardInterrupt THEN "interrupt" ELSE kind]
    /\ IF out = NoExc
       THEN /\ pc' = [pc EXCEPT ![p] = next]
            /\ UNCHANGED raised
       ELSE /\ pc' = [pc EXCEPT ![p] = "except"]
            /\ raised' = [raised EXCEPT ![p] = out]
    /\ UNCHANGED fn_vars

Call(p, name) == calls' = [calls EXCEPT ![p] = Append(@, name)]
Called(p, name) == \E i \in 1..Len(calls[p]) : calls[p][i] = name
Completes(p, stage) == completed' = [completed EXCEPT ![p] = @ \cup {stage}]

\* execute_query, "Convert times": except ValueError as e: raise QuerySyntaxError(str(e)).
ParseTimeExcept(e) ==
    IF e.type = "ValueError" THEN Exc("QuerySyntaxError", e.text) ELSE e

ParseTimes(p) ==
    /\ pc[p] = "parse_time"
    /\ Call(p, "parse_time")
    /\ \/ /\ \E s, e \in 0..MaxEpoch :
                /\ start_epoch' = [start_epoch EXCEPT ![p] = s]
                /\ end_epoch' = [end_epoch EXCEPT ![p] = e]
          /\ Goto(p, "check_range")
          /\ Completes(p, "parse_time")
       \/ /\ LET e == Exc("ValueError", {"Unable to parse time format"})
             IN  Fail(p, e, ParseTimeExcept(e), "time_format", "check_range")
          /\ UNCHANGED <<start_epoch, end_epoch, completed>>
    /\ UNCHANGED <<clock, exec_vars, update_interval, validated_groups, query_id,
                   rejection, loop_vars, exit_code>>

\* A range check that lets an empty range through.
RangeOk_AllowsEqual(s, e) == ~(s > e)

\* execute_query, "Validate time range": if start_epoch >= end_epoch: raise.
RangeOk(s, e) == ~(s >= e)

CheckRange(p) ==
    /\ pc[p] = "check_range"
    /\ IF RangeOk(start_epoch[p], end_epoch[p])
       THEN /\ Goto(p, "validate_log_groups")
            /\ Completes(p, "check_range")
       ELSE /\ LET e == Exc("QuerySyntaxError", {"Start time must be before end time"})
               IN  Fail(p, e, e, "query_syntax", "validate_log_groups")
            /\ UNCHANGED completed
    /\ UNCHANGED <<clock, exec_vars, update_interval, query_vars, loop_vars,
                   exit_code, calls>>

\* A handler that prints the error and forgets to exit.
ValidateExcept_Continues(e) ==
    IF e.type = "LogGroupNotFoundError" THEN NoExc ELSE e

\* execute_query, "Validate log groups": except LogGroupNotFoundError: print
\* and sys.exit(1); any other exception of the catalog lookup propagates.
ValidateExcept(e) ==
    IF e.type = "LogGroupNotFoundError" THEN SystemExit(1) ELSE e

ValidateFailures ==
    {Exc("LogGroupNotFoundError", {"Log group not found"}),
     ClientError("AccessDeniedException")}

ValidateLogGroups(p) ==
    /\ pc[p] = "validate_log_groups"
    /\ Call(p, "describe_log_groups")
    /\ \/ /\ \E n \in 0..MaxGroups :
                validated_groups' = [validated_groups EXCEPT ![p] = n]
          /\ Goto(p, "start_query")
          /\ Completes(p, "validate_log_groups")
       \/ /\ \E e \in ValidateFailures :
                Fail(p, e, ValidateExcept(e),
                     IF e.type = "LogGroupNotFoundError"
                     THEN "resource_not_found" ELSE "execution_error",
                     "start_query")
          /\ UNCHANGED <<validated_groups, completed>>
    /\ UNCHANGED <<clock, exec_vars, update_interval, start_epoch, end_epoch,
                   query_id, rejection, loop_vars, exit_code>>

\* A mapping without the rate-limit branch.
StartQueryExcept_NoRateLimit(e) ==
    LET error_code == IF e.has_response THEN e.error_code ELSE ""
    IN  IF ~IsException(e) THEN e
        ELSE IF "MalformedQueryException" \in e.text
                \/ error_code = "InvalidParameterException"
        THEN Exc("QuerySyntaxError", {"Invalid query syntax"} \cup e.text)
        ELSE Exc("CloudWatchQueryError", {"Query execution failed"} \cup e.text)

\* execute_query, except Exception as e around start_query: the error code
\* of the response, then the three-way mapping.  KeyboardInterrupt and
\* SystemExit are no Exception and pass through.
StartQueryExcept(e) ==
    LET error_code == IF e.has_response THEN e.error_code ELSE ""
    IN  IF ~IsException(e) THEN e
        ELSE IF "MalformedQueryException" \in e.text
                \/ error_code = "InvalidParameterException"
        THEN Exc("QuerySyntaxError", {"Invalid query syntax"} \cup e.text)
        ELSE IF error_code = "LimitExceededException"
        THEN SystemExit(1)
        ELSE Exc("CloudWatchQueryError", {"Query execution failed"} \cup e.text)

\* The failure kind of the error taxonomy a start_query failure belongs to.
StartQueryKind(e) ==
    CASE "MalformedQueryException" \in e.text -> "query_syntax"
      [] e.error_code = "InvalidParameterException" -> "query_syntax"
      [] e.error_code = "LimitExceededException" -> "rate_limit"
      [] OTHER -> "execution_error"

\* The locals of execute_query are gone once it has returned the query id.
StartQuery(p) ==
    /\ pc[p] = "start_query"
    /\ Call(p, "start_query")
    /\ \/ /\ query_id' = [query_id EXCEPT ![p] = p]
          /\ start_epoch' = [start_epoch EXCEPT ![p] = 0]
          /\ end_epoch' = [end_epoch EXCEPT ![p] = 0]
          /\ validated_groups' = [validated_groups EXCEPT ![p] = 0]
          /\ Goto(p, "wait_for_results")
          /\ Completes(p, "start_query")
          /\ UNCHANGED rejection
       \/ /\ \E e \in CallFailures :
                /\ rejection' = [rejection EXCEPT ![p] = e]
                /\ Fail(p, e, StartQueryExcept(e), StartQueryKind(e), "wait_for_results")
          /\ UNCHANGED <<query_id, completed, start_epoch, end_epoch, validated_groups>>
    /\ UNCHANGED <<clock, exec_vars, update_interval, loop_vars, exit_code>>

----------------------------------------------------------------------------
\* wait_for_results.

\* self.start_time = time.time(); self.last_update_time = self.start_time
WaitInit(p) ==
    /\ pc[p] = "wait_for_results"
    /\ self_start_time' = clock
    /\ self_last_update_time' = clock
    /\ own_start' = [own_start EXCEPT ![p] = clock]
    /\ own_last' = [own_last EXCEPT ![p] = clock]
    /\ Goto(p, "loop_top")
    /\ UNCHANGED <<clock, update_interval, query_vars, current_time, elapsed,
                   response, returned, wake, exit_code, lines, calls, fetched,
                   slept, checked, fetch_failed, completed>>

\* An elapsed time counted from the last update.
Elapsed_SinceLastUpdate(now, start) == now - self_last_update_time

\* elapsed = current_time - self.start_time
Elapsed(now, start) == now - start

\* current_time = time.time(); elapsed = ...
LoopTop(p) ==
    /\ pc[p] = "loop_top"
    /\ current_time' = [current_time EXCEPT ![p] = clock]
    /\ elapsed' = [elapsed EXCEPT ![p] = Elapsed(clock, self_start_time)]
    /\ Goto(p, "get_query_results")
    /\ UNCHANGED <<clock, exec_vars, update_interval, query_vars, response,
                   returned, wake, exit_code, lines, calls, fetched, slept,
                   own_start, own_last, checked, fetch_failed, completed>>

\* A bare except: that catches KeyboardInterrupt too.
GetQueryResultsExcept_BareExcept(e) == SystemExit(1)

\* A handler that reports the error and goes on polling.
GetQueryResultsExcept_Continues(e) ==
    IF IsException(e) THEN NoExc ELSE e

\* except Exception as e around get_query_results: print and sys.exit(1).
GetQueryResultsExcept(e) ==
    IF IsException(e) THEN SystemExit(1) ELSE e

\* "Get query status": one fetch, which answers or raises.
GetQueryResults(p) ==
    /\ pc[p] = "get_query_results"
    /\ Call(p, "get_query_results")
    /\ fetched' = [fetched EXCEPT ![p] = @ + 1]
    /\ \/ /\ \E r \in Responses : response' = [response EXCEPT ![p] = r]
          /\ Goto(p, "check_status")
          /\ UNCHANGED fetch_failed
       \/ /\ \E e \in {ClientError("ThrottlingException"), EndpointConnectionError,
                       KeyboardInterrupt} :
                Fail(p, e, GetQueryResultsExcept(e), "fetch_error", "check_status")
          /\ fetch_failed' = [fetch_failed EXCEPT ![p] = IF @ = 0 THEN fetched[p] + 1 ELSE @]
          /\ UNCHANGED response
    /\ UNCHANGED <<clock, exec_vars, update_interval, query_vars, current_time,
                   elapsed, returned, wake, exit_code, lines, slept, own_start,
                   own_last, checked, completed>>

\* should_update = (current_time - self.last_update_time >= update_interval)
ShouldUpdate(now, last, interval) == now - last >= interval

\* is_terminal_state = status in ['Complete', 'Failed', 'Cancelled', 'Timeout']
IsTerminalState(status) == status \in TerminalStates

\* A condition that forgets the terminal state.
ShouldPrint_IntervalOnly(should_update, is_terminal_state) == should_update

\* if should_update or is_terminal_state:
ShouldPrint(should_update, is_terminal_state) == should_update \/ is_terminal_state

\* A chain that returns the response of a cancelled query as well.
OnTerminal_ReturnsCancelled(status) ==
    CASE status = "Complete" -> "return"
      [] status = "Failed" -> "exit"
      [] status = "Cancelled" -> "return"
      [] status = "Timeout" -> "exit"
      [] OTHER -> "sleep"

\* A chain without the branch for Timeout.
OnTerminal_IgnoresTimeout(status) ==
    CASE status = "Complete" -> "return"
      [] status = "Failed" -> "exit"
      [] status = "Cancelled" -> "exit"
      [] OTHER -> "sleep"

\* "Check completion": what the if/elif chain does with a terminal status.
OnTerminal(status) ==
    CASE status = "Complete" -> "return"
      [] status = "Failed" -> "exit"
      [] status = "Cancelled" -> "exit"
      [] status = "Timeout" -> "exit"
      [] OTHER -> "sleep"

\* _print_status_update, "Format elapsed time": <<minutes, seconds>>, with
\* no minutes part (0) below one minute.
ElapsedStr(el) ==
    IF el >= Minute THEN <<el \div Minute, el % Minute>> ELSE <<0, el>>

\* _print_status_update prints "[{elapsed_str}] Status: {status}"; at and
\* fetch tell the iteration that printed the line.
StatusLine(status, el, now, n) ==
    [status |-> status, elapsed |-> el, shown |-> ElapsedStr(el), at |-> now, fetch |-> n]

\* From status = response['status'] to the end of "Check completion".
CheckStatus(p) ==
    LET status == response[p].status
        should_update == ShouldUpdate(current_time[p], self_last_update_time,
                                      update_interval[p])
        is_terminal_state == IsTerminalState(status)
        next == IF is_terminal_state THEN OnTerminal(status) ELSE "sleep"
    IN  /\ pc[p] = "check_status"
        /\ checked' = [checked EXCEPT ![p] = @ + 1]
        /\ IF ShouldPrint(should_update, is_terminal_state)
           THEN /\ lines' = [lines EXCEPT ![p] =
                                Append(@, StatusLine(status, elapsed[p], current_time[p],
                                                     fetched[p]))]
                /\ self_last_update_time' = current_time[p]
                /\ own_last' = [own_last EXCEPT ![p] = current_time[p]]
           ELSE UNCHANGED <<lines, self_last_update_time, own_last>>
        /\ CASE next = "return" ->
                    /\ returned' = [returned EXCEPT ![p] = response[p]]
                    /\ Goto(p, "format_results")
                    /\ Completes(p, "wait_for_results")
             [] next = "exit" ->
                    /\ Fail(p, SystemExit(1), SystemExit(1), status, "sleep")
                    /\ UNCHANGED <<returned, completed>>
             [] OTHER ->
                    /\ Goto(p, "sleep")
                    /\ UNCHANGED <<returned, completed>>
        /\ UNCHANGED <<clock, self_start_time, update_interval, query_vars,
                       current_time, elapsed, response, wake, exit_code, calls,
                       fetched, slept, own_start, fetch_failed>>

\* A loop that sleeps for update_interval.
SleepDuration_UpdateInterval(interval) == interval

\* "Poll every 2 seconds": time.sleep(2)
SleepDuration(interval) == PollPeriod

Sleep(p) ==
    /\ pc[p] = "sleep"
    /\ slept' = [slept EXCEPT ![p] = Append(@, SleepDuration(update_interval[p]))]
    /\ wake' = [wake EXCEPT ![p] = clock + SleepDuration(update_interval[p])]
    /\ Goto(p, "sleeping")
    /\ UNCHANGED <<clock, exec_vars, update_interval, query_vars, current_time,
                   elapsed, response, returned, exit_code, lines, calls, fetched,
                   own_start, own_last, checked, fetch_failed, completed>>

\* time.sleep returns once the duration has passed (it may oversleep).
Wake(p) ==
    /\ pc[p] = "sleeping"
    /\ clock >= wake[p]
    /\ Goto(p, "loop_top")
    /\ UNCHANGED <<clock, exec_vars, update_interval, query_vars, loop_vars,
                   exit_code, calls, completed>>

WaitPcs == {"wait_for_results", "loop_top", "get_query_results", "check_status",
            "sleep", "sleeping"}

\* Time passes while a call of wait_for_results is under way: a second, or
\* a whole minute in which the process does not run.
Tick ==
    /\ clock < MaxTime
    /\ \E p \in Procs : pc[p] \in WaitPcs
    /\ \E d \in {1, Minute} : clock' = clock + d
    /\ UNCHANGED <<pc, exec_vars, update_interval, query_vars, loop_vars, ctl_vars,
                   exit_code, calls, completed, fn_vars>>

----------------------------------------------------------------------------
\* execute_and_save after wait_for_results returned: format_results returns
\* or raises (ValueError of an unsupported format or of csv.DictWriter,
\* OSError of the output file).
FormatResults(p) ==
    /\ pc[p] = "format_results"
    /\ Call(p, "format_results")
    /\ \/ /\ Goto(p, "return")
          /\ Completes(p, "format_results")
       \/ /\ \E t \in {"ValueError", "OSError"} :
                Fail(p, Exc(t, {}), Exc(t, {}), "format_error", "return")
          /\ UNCHANGED completed
    /\ UNCHANGED <<clock, exec_vars, update_interval, query_vars, loop_vars,
                   exit_code>>

\* Ctrl-C (SIGINT) raises KeyboardInterrupt in the main thread at a point
\* where no try statement around it catches anything but Exception
\* subclasses; the two remote calls raise theirs inside their own actions.
InterruptiblePcs ==
    {"parse_time", "check_range", "validate_log_groups", "wait_for_results",
     "loop_top", "check_status", "sleep", "sleeping", "format_results"}

Interrupt(p) ==
    /\ pc[p] \in InterruptiblePcs
    /\ Fail(p, KeyboardInterrupt, KeyboardInterrupt, "interrupt", pc[p])
    /\ UNCHANGED <<clock, exec_vars, update_interval, query_vars, loop_vars,
                   exit_code, calls, completed>>

\* The except clauses of execute_and_save, in order; SystemExit matches none
\* of them and ends the process with its own status.
ExecuteAndSaveExcept(e) ==
    IF e.type \in CloudWatchQueryErrors THEN 1
    ELSE IF e.type = "KeyboardInterrupt" THEN 130
    ELSE IF IsException(e) THEN 1
    ELSE e.exit

ExceptHandler(p) ==
    /\ pc[p] = "except"
    /\ exit_code' = [exit_code EXCEPT ![p] = ExecuteAndSaveExcept(raised[p])]
    /\ Goto(p, "exited")
    /\ UNCHANGED <<clock, exec_vars, update_interval, query_vars, loop_vars,
                   calls, completed>>

\* execute_and_save and main return: the interpreter exits with status 0.
ReturnFromMain(p) ==
    /\ pc[p] = "return"
    /\ exit_code' = [exit_code EXCEPT ![p] = 0]
    /\ Goto(p, "exited")
    /\ UNCHANGED <<clock, exec_vars, update_interval, query_vars, loop_vars,
                   calls, completed>>

----------------------------------------------------------------------------
Next ==
    \/ Tick
    \/ \E p \in Procs :
          \/ ParseTimes(p)
          \/ CheckRange(p)
          \/ ValidateLogGroups(p)
          \/ StartQuery(p)
          \/ WaitInit(p)
          \/ LoopTop(p)
          \/ GetQueryResults(p)
          \/ CheckStatus(p)
          \/ Sleep(p)
          \/ Wake(p)
          \/ FormatResults(p)
          \/ Interrupt(p)
          \/ ExceptHandler(p)
          \/ ReturnFromMain(p)

Spec == Init /\ [][Next]_vars

-----
\* Two calls of wait_for_results, for two query ids, under way on one
\* executor (two threads sharing it): their iterations interleave at the
\* statement blocks above.
InitConc ==
    /\ FnIdle
    /\ Fresh([p \in Procs |-> "wait_for_results"], MaxTime - ConcWindow)
    /\ query_id = [p \in Procs |-> p]

NextConc ==
    \/ Tick
    \/ \E p \in Procs :
          \/ WaitInit(p)
          \/ LoopTop(p)
          \/ GetQueryResults(p)
          \/ CheckStatus(p)
          \/ Sleep(p)
          \/ Wake(p)

SpecConc == InitConc /\ [][NextConc]_vars

----------------------------------------------------------------------------
\* validate_log_groups, and execute_query from "Validate log groups" to
\* start_query.  A name is a sequence of characters; "*" is the wildcard.

MaxPatterns == 2     \* a call passes 0..MaxPatterns patterns
MaxCatalogA == 11    \* the catalog holds 0..MaxCatalogA names that start with "a"
MaxCatalogB == 1     \* and 0..MaxCatalogB names that start with "b"

\* "CloudWatch has a limit of 20 log groups per query"
MaxLogGroups == 20

NameChars == <<"a", "b", "c", "d", "e", "f", "g", "h", "i", "j", "k", "l", "m", "n">>

\* A catalog of na names "a?" and nb names "b?", in the service's order.
CatalogOf(na, nb) ==
    [i \in 1..(na + nb) |->
        IF i <= na THEN <<"a", NameChars[i]>> ELSE <<"b", NameChars[i - na]>>]

\* The patterns a caller passes: wildcard patterns (the wildcard at the end,
\* in the middle, at the start) and literal names.
Patterns ==
    {<<"a", "*">>, <<"b", "*">>, <<"*">>, <<"a", "*", "a">>, <<"*", "b">>,
     <<"a", "a">>, <<"a", "b">>, <<"b", "a">>}

\* if '*' in log_group_pattern
IsWildcard(pattern) == \E i \in 1..Len(pattern) : pattern[i] = "*"

\* prefix = log_group_pattern.replace('*', '')
Prefix(pattern) ==
    LET NotStar(c) == c # "*"
    IN  SelectSeq(pattern, NotStar)

HasPrefix(name, prefix) ==
    /\ Len(prefix) <= Len(name)
    /\ SubSeq(name, 1, Len(prefix)) = prefix

\* The service's answer to describe_log_groups(logGroupNamePrefix=prefix):
\* the names of the catalog that start with prefix, in the catalog's order
\* (all pages of the paginator).
DescribeLogGroups(prefix) ==
    LET Matching(name) == HasPrefix(name, prefix)
    IN  SelectSeq(catalog, Matching)

\* What a describe_log_groups call can raise instead of answering: the
\* service's refusal, and, from a service that reports an absent name by an
\* error, ResourceNotFoundException.
DescribeFailures(prefix) ==
    {ClientError("AccessDeniedException")}
        \cup (IF DescribeLogGroups(prefix) = <<>>
              THEN {ClientError("ResourceNotFoundException")} ELSE {})

\* except Exception as e: if 'ResourceNotFoundException' in str(e): raise
\* LogGroupNotFoundError(...); raise
DescribeExcept(e) ==
    IF ~IsException(e) THEN e
    ELSE IF "ResourceNotFoundException" \in e.text
    THEN Exc("LogGroupNotFoundError", {"Log group not found"})
    ELSE e

\* if not validated_groups: the test is made on the list collected so far.
NoneFound(groups) == groups = <<>>

\* The wildcard branch on the service's answer: every name of every page is
\* appended, then the emptiness test; its LogGroupNotFoundError is raised
\* inside the try block and passes the handler unchanged.
WildcardBranch(groups, answer) ==
    LET appended == groups \o answer
    IN  IF NoneFound(appended)
        THEN [groups |-> appended,
              exc |-> DescribeExcept(Exc("LogGroupNotFoundError", {"No log groups found matching pattern"}))]
        ELSE [groups |-> appended, exc |-> NoExc]

\* The literal branch on the service's answer: the answer is not looked at,
\* validated_groups.append(log_group_pattern).
LiteralBranch(groups, pattern, answer) ==
    [groups |-> Append(groups, pattern), exc |-> NoExc]

\* A truncation that keeps the last names.
Cap_KeepsLast(groups) ==
    IF Len(groups) > MaxLogGroups
    THEN SubSeq(groups, Len(groups) - MaxLogGroups + 1, Len(groups))
    ELSE groups

\* validated_groups = validated_groups[:20] when there are more than 20.
Cap(groups) ==
    IF Len(groups) > MaxLogGroups THEN SubSeq(groups, 1, MaxLogGroups) ELSE groups

\* The count the warning cites; 0 when no warning is printed.
CapWarning(groups) ==
    IF Len(groups) > MaxLogGroups THEN Len(groups) ELSE 0

\* One call: a pattern list and a catalog.
InitValidate ==
    /\ Fresh([p \in Procs |-> "idle"], 0)
    /\ update_interval = [p \in Procs |-> DefaultUpdateInterval]
    /\ query_id = [p \in Procs |-> 0]
    /\ TimeIdle
    /\ FormatIdle
    /\ AthenaIdle
    /\ \E n \in 0..MaxPatterns : log_groups \in [1..n -> Patterns]
    /\ \E na \in 0..MaxCatalogA, nb \in 0..MaxCatalogB : catalog = CatalogOf(na, nb)
    /\ vpc = "for"
    /\ next_pattern = 1
    /\ validated_names = <<>>
    /\ lookups = <<>>
    /\ warning = 0
    /\ v_raised = NoExc
    /\ eq_raised = NoExc
    /\ sq_called = FALSE
    /\ sq_names = <<>>

\* An exception leaves validate_log_groups and meets execute_query's handler.
ValidateRaises(e) ==
    /\ v_raised' = e
    /\ eq_raised' = ValidateExcept(e)
    /\ vpc' = "failed"

\* One turn of the for loop: the lookup for the next pattern, which answers
\* or raises, and the branch taken on it.
ValidatePattern ==
    /\ vpc = "for"
    /\ next_pattern <= Len(log_groups)
    /\ LET pattern == log_groups[next_pattern]
           prefix == IF IsWildcard(pattern) THEN Prefix(pattern) ELSE pattern
           answer == DescribeLogGroups(prefix)
           done == IF IsWildcard(pattern)
                   THEN WildcardBranch(validated_names, answer)
                   ELSE LiteralBranch(validated_names, pattern, answer)
       IN  /\ lookups' = Append(lookups, prefix)
           /\ \/ /\ validated_names' = done.groups
                 /\ IF done.exc = NoExc
                    THEN /\ next_pattern' = next_pattern + 1
                         /\ UNCHANGED <<vpc, v_raised, eq_raised>>
                    ELSE /\ ValidateRaises(done.exc)
                         /\ UNCHANGED next_pattern
              \/ /\ \E e \in DescribeFailures(prefix) : ValidateRaises(DescribeExcept(e))
                 /\ UNCHANGED <<validated_names, next_pattern>>
    /\ UNCHANGED <<log_groups, catalog, warning, sq_called, sq_names>>
    /\ UNCHANGED <<pc, clock, exec_vars, update_interval, query_vars, loop_vars,
                   ctl_vars, exit_code, calls, completed, time_vars, format_vars, athena_vars>>

\* After the loop: the warning and the truncation, and the return.
ValidateReturn ==
    /\ vpc = "for"
    /\ next_pattern > Len(log_groups)
    /\ warning' = CapWarning(validated_names)
    /\ validated_names' = Cap(validated_names)
    /\ vpc' = "start_query"
    /\ UNCHANGED <<log_groups, catalog, next_pattern, lookups, v_raised, eq_raised,
                   sq_called, sq_names>>
    /\ UNCHANGED <<pc, clock, exec_vars, update_interval, query_vars, loop_vars,
                   ctl_vars, exit_code, calls, completed, time_vars, format_vars, athena_vars>>

\* execute_query goes on: start_query(logGroupNames=validated_groups, ...).
SubmitValidated ==
    /\ vpc = "start_query"
    /\ sq_called' = TRUE
    /\ sq_names' = validated_names
    /\ vpc' = "submitted"
    /\ UNCHANGED <<log_groups, catalog, next_pattern, validated_names, lookups,
                   warning, v_raised, eq_raised>>
    /\ UNCHANGED <<pc, clock, exec_vars, update_interval, query_vars, loop_vars,
                   ctl_vars, exit_code, calls, completed, time_vars, format_vars, athena_vars>>

NextValidate ==
    \/ ValidatePattern
    \/ ValidateReturn
    \/ SubmitValidated

SpecValidate == InitValidate /\ [][NextValidate]_vars

----------------------------------------------------------------------------
\* parse_time.  A time string is a sequence of characters; instants are
\* whole milliseconds since the Unix epoch, wall-clock times whole seconds.
\* The float arithmetic of int(dt.timestamp() * 1000) is taken to be exact.

DigitChars == <<"0", "1", "2", "3", "4", "5", "6", "7", "8", "9">>
Whitespace == {" ", "\t", "\n"}

IsDigit(c) == \E i \in 1..10 : DigitChars[i] = c
DigitVal(c) == (CHOOSE i \in 1..10 : DigitChars[i] = c) - 1

\* str.isdigit(): non-empty, digits only.
IsDigits(s) == Len(s) > 0 /\ \A i \in 1..Len(s) : IsDigit(s[i])

RECURSIVE DigitsVal(_)
DigitsVal(s) ==
    IF s = <<>> THEN 0
    ELSE 10 * DigitsVal(SubSeq(s, 1, Len(s) - 1)) + DigitVal(s[Len(s)])

\* str.lower()
LowerChar(c) ==
    LET upper == <<"A", "B", "C", "D", "E", "F", "G", "H", "I", "J", "K", "L", "M",
                   "N", "O", "P", "Q", "R", "S", "T", "U", "V", "W", "X", "Y", "Z">>
        lower == <<"a", "b", "c", "d", "e", "f", "g", "h", "i", "j", "k", "l", "m",
                   "n", "o", "p", "q", "r", "s", "t", "u", "v", "w", "x", "y", "z">>
    IN  IF \E i \in 1..26 : upper[i] = c
        THEN lower[CHOOSE i \in 1..26 : upper[i] = c]
        ELSE c
Lower(s) == [i \in 1..Len(s) |-> LowerChar(s[i])]

\* str.strip()
RECURSIVE Strip(_)
Strip(s) ==
    IF s # <<>> /\ s[1] \in Whitespace THEN Strip(Tail(s))
    ELSE IF s # <<>> /\ s[Len(s)] \in Whitespace THEN Strip(SubSeq(s, 1, Len(s) - 1))
    ELSE s

\* time_str.replace('Z', '+00:00'): every "Z" of the string.
RECURSIVE ReplaceZ(_)
ReplaceZ(s) ==
    IF s = <<>> THEN <<>>
    ELSE (IF s[1] = "Z" THEN <<"+", "0", "0", ":", "0", "0">> ELSE <<s[1]>>)
            \o ReplaceZ(Tail(s))

\* int(text) of an ASCII text without underscores: surrounding whitespace
\* and one sign are accepted; anything else raises ValueError (ok = FALSE).
PyInt(text) ==
    LET t == Strip(text)
        signed == t # <<>> /\ t[1] \in {"+", "-"}
        digits == IF signed THEN Tail(t) ELSE t
    IN  IF IsDigits(digits)
        THEN [ok |-> TRUE,
              value |-> IF signed /\ t[1] = "-" THEN -DigitsVal(digits) ELSE DigitsVal(digits)]
        ELSE [ok |-> FALSE, value |-> 0]

\* What the date and time parsers below give: the calendar fields, and the
\* UTC offset in seconds when the text carries one (aware).
NoFields ==
    [ok |-> FALSE, year |-> 0, month |-> 0, day |-> 0, hour |-> 0, minute |-> 0,
     second |-> 0, aware |-> FALSE, utcoffset |-> 0]
Fields(y, mo, d, h, mi, sec, aware, off) ==
    [ok |-> TRUE, year |-> y, month |-> mo, day |-> d, hour |-> h, minute |-> mi,
     second |-> sec, aware |-> aware, utcoffset |-> off]

DaysInMonth(y, m) ==
    LET leap == (y % 4 = 0 /\ y % 100 # 0) \/ y % 400 = 0
    IN  IF m = 2 THEN (IF leap THEN 29 ELSE 28)
        ELSE IF m \in {4, 6, 9, 11} THEN 30 ELSE 31

\* The checks of the datetime constructor (ValueError otherwise).
ValidFields(y, mo, d, h, mi, sec) ==
    /\ y >= 1 /\ y <= 9999
    /\ mo >= 1 /\ mo <= 12
    /\ d >= 1 /\ d <= DaysInMonth(y, mo)
    /\ h >= 0 /\ h <= 23
    /\ mi >= 0 /\ mi <= 59
    /\ sec >= 0 /\ sec <= 59

\* The days from 1970-01-01 to the given date of the proleptic Gregorian
\* calendar.
DaysFromCivil(y, m, d) ==
    LET yy == IF m <= 2 THEN y - 1 ELSE y
        era == yy \div 400
        yoe == yy - era * 400
        mp == (m + 9) % 12
        doy == (153 * mp + 2) \div 5 + d - 1
        doe == yoe * 365 + yoe \div 4 - yoe \div 100 + doy
    IN  era * 146097 + doe - 719468

\* Two digits at positions i, i+1 of s, as a number; -1 when they are not
\* both digits.
TwoDigits(s, i) ==
    IF i + 1 <= Len(s) /\ IsDigit(s[i]) /\ IsDigit(s[i + 1])
    THEN 10 * DigitVal(s[i]) + DigitVal(s[i + 1])
    ELSE -1

\* "HH", "HH:MM" or "HH:MM:SS" (the time part of fromisoformat).
IsoTime(t) ==
    LET h == TwoDigits(t, 1)
        mi == IF Len(t) >= 5 THEN TwoDigits(t, 4) ELSE 0
        sec == IF Len(t) = 8 THEN TwoDigits(t, 7) ELSE 0
    IN  IF /\ Len(t) \in {2, 5, 8}
           /\ (Len(t) >= 5 => t[3] = ":")
           /\ (Len(t) = 8 => t[6] = ":")
           /\ h >= 0 /\ mi >= 0 /\ sec >= 0
        THEN [ok |-> TRUE, hour |-> h, minute |-> mi, second |-> sec]
        ELSE [ok |-> FALSE, hour |-> 0, minute |-> 0, second |-> 0]

\* The position of the first "+" or "-" of t; 0 when there is none.
SignPos(t) ==
    IF \E i \in 1..Len(t) : t[i] \in {"+", "-"}
    THEN CHOOSE i \in 1..Len(t) :
            /\ t[i] \in {"+", "-"}
            /\ \A j \in 1..(i - 1) : t[j] \notin {"+", "-"}
    ELSE 0

\* datetime.fromisoformat(text) on the texts every supported interpreter
\* reads alike: YYYY-MM-DD, then optionally one separator character, a time
\* and a UTC offset +HH:MM or -HH:MM.  ok = FALSE is its ValueError.
FromIsoFormat(text) ==
    LET y == IF Len(text) >= 4 /\ IsDigits(SubSeq(text, 1, 4))
             THEN DigitsVal(SubSeq(text, 1, 4)) ELSE -1
        mo == TwoDigits(text, 6)
        d == TwoDigits(text, 9)
        date_ok == /\ Len(text) >= 10
                   /\ y >= 0 /\ mo >= 0 /\ d >= 0
                   /\ text[5] = "-" /\ text[8] = "-"
        rest == IF Len(text) >= 12 THEN SubSeq(text, 12, Len(text)) ELSE <<>>
        sp == SignPos(rest)
        tm == IsoTime(IF sp = 0 THEN rest ELSE SubSeq(rest, 1, sp - 1))
        tz == IF sp = 0 THEN <<>> ELSE SubSeq(rest, sp + 1, Len(rest))
        tzh == TwoDigits(tz, 1)
        tzm == TwoDigits(tz, 4)
        tz_ok == sp = 0 \/ (Len(tz) = 5 /\ tz[3] = ":" /\ tzh >= 0 /\ tzh <= 23
                               /\ tzm >= 0 /\ tzm <= 59)
        off == IF sp = 0 THEN 0
               ELSE (IF rest[sp] = "-" THEN -1 ELSE 1) * (tzh * 3600 + tzm * 60)
    IN  IF ~date_ok THEN NoFields
        ELSE IF Len(text) = 10
        THEN (IF ValidFields(y, mo, d, 0, 0, 0)
              THEN Fields(y, mo, d, 0, 0, 0, FALSE, 0) ELSE NoFields)
        ELSE IF Len(text) >= 13 /\ tm.ok /\ tz_ok
                /\ ValidFields(y, mo, d, tm.hour, tm.minute, tm.second)
        THEN Fields(y, mo, d, tm.hour, tm.minute, tm.second, sp # 0, off)
        ELSE NoFields

\* One numeric directive of strptime at position i of s: two digits in
\* lo2..hi2, or else one digit in lo1..9; next is the position after it.
Directive(s, i, lo2, hi2, lo1) ==
    LET two == TwoDigits(s, i)
    IN  IF two >= 0
        THEN [ok |-> two >= lo2 /\ two <= hi2, value |-> two, next |-> i + 2]
        ELSE IF i <= Len(s) /\ IsDigit(s[i])
        THEN [ok |-> DigitVal(s[i]) >= lo1, value |-> DigitVal(s[i]), next |-> i + 1]
        ELSE [ok |-> FALSE, value |-> 0, next |-> i]

\* datetime.strptime(text, "%Y-%m-%d"), or with with_time
\* "%Y-%m-%dT%H:%M:%S": %Y takes four digits, the other directives one or
\* two.  ok = FALSE is its ValueError.
Strptime(text, with_time) ==
    LET y == IF Len(text) >= 4 /\ IsDigits(SubSeq(text, 1, 4))
             THEN DigitsVal(SubSeq(text, 1, 4)) ELSE -1
        mo == Directive(text, 6, 1, 12, 1)
        d == Directive(text, mo.next + 1, 1, 31, 1)
        h == Directive(text, d.next + 1, 0, 23, 0)
        mi == Directive(text, h.next + 1, 0, 59, 0)
        sec == Directive(text, mi.next + 1, 0, 61, 0)
        date_ok == /\ y >= 0 /\ 5 <= Len(text) /\ text[5] = "-"
                   /\ mo.ok /\ mo.next <= Len(text) /\ text[mo.next] = "-"
                   /\ d.ok
        time_ok == /\ d.next <= Len(text) /\ text[d.next] = "T"
                   /\ h.ok /\ h.next <= Len(text) /\ text[h.next] = ":"
                   /\ mi.ok /\ mi.next <= Len(text) /\ text[mi.next] = ":"
                   /\ sec.ok
    IN  IF ~date_ok THEN NoFields
        ELSE IF ~with_time
        THEN (IF d.next = Len(text) + 1 /\ ValidFields(y, mo.value, d.value, 0, 0, 0)
              THEN Fields(y, mo.value, d.value, 0, 0, 0, FALSE, 0) ELSE NoFields)
        ELSE IF time_ok /\ sec.next = Len(text) + 1
                /\ ValidFields(y, mo.value, d.value, h.value, mi.value, sec.value)
        THEN Fields(y, mo.value, d.value, h.value, mi.value, sec.value, FALSE, 0)
        ELSE NoFields

\* The process's local time zone: its UTC offset in seconds before and from
\* the instant (seconds since the epoch) of its one transition.
\* time.localtime(u), as seconds since the epoch on the local wall clock.
LocalTime(zone, u) == u + (IF u < zone.at THEN zone.before ELSE zone.after)

DaySeconds == 86400

\* datetime._mktime: the instant u with LocalTime(u) = t for a naive wall
\* time t; fold chooses among the two instants of a repeated wall time, and
\* a wall time in a gap is moved across it.
MkTime(zone, t, fold) ==
    LET a == LocalTime(zone, t) - t
        u1 == t - a
        t1 == LocalTime(zone, u1)
        probe == IF fold = 1 THEN u1 + DaySeconds ELSE u1 - DaySeconds
        b == IF t1 = t THEN LocalTime(zone, probe) - probe ELSE t1 - u1
        u2 == t - b
        t2 == LocalTime(zone, u2)
    IN  IF t1 = t /\ a = b THEN u1
        ELSE IF t2 = t THEN u2
        ELSE IF t1 = t THEN u1
        ELSE IF fold = 1 THEN (IF u1 < u2 THEN u1 ELSE u2)
        ELSE (IF u1 > u2 THEN u1 ELSE u2)

\* datetime.now(): the naive local wall time of the instant now (in
\* milliseconds), with fold = 1 in the second pass of a repeated hour.
DatetimeNow(zone, now) ==
    LET u == now \div 1000
        t == LocalTime(zone, u)
        trans == t - LocalTime(zone, u - DaySeconds) - DaySeconds
    IN  [wall |-> t, ms |-> now % 1000,
         fold |-> IF trans < 0 /\ LocalTime(zone, u + trans) = t THEN 1 ELSE 0]

\* int(dt.timestamp() * 1000) of a naive datetime.
NaiveTimestampMs(zone, dt) == MkTime(zone, dt.wall, dt.fold) * 1000 + dt.ms

\* dt - delta: the wall clock moved back by delta seconds.
Minus(dt, delta) == [wall |-> dt.wall - delta, ms |-> dt.ms, fold |-> 0]

\* dt.replace(hour=0, minute=0, second=0, microsecond=0)
StartOfDay(dt) ==
    [wall |-> dt.wall - (dt.wall % DaySeconds), ms |-> 0, fold |-> dt.fold]

\* int(dt.timestamp() * 1000) of what a parser read.
FieldsTimestampMs(zone, f) ==
    LET wall == DaysFromCivil(f.year, f.month, f.day) * DaySeconds
                    + f.hour * 3600 + f.minute * 60 + f.second
    IN  IF f.aware THEN (wall - f.utcoffset) * 1000
        ELSE MkTime(zone, wall, 0) * 1000

\* 'now'
TokenNow == <<"n", "o", "w">>

\* named_ranges: 'last-hour', 'last-24h', 'last-day', 'last-week',
\* 'yesterday' and 'today', each with its timedelta in seconds.
NamedRanges ==
    (<<"l", "a", "s", "t", "-", "h", "o", "u", "r">> :> 3600)
        @@ (<<"l", "a", "s", "t", "-", "2", "4", "h">> :> 24 * 3600)
        @@ (<<"l", "a", "s", "t", "-", "d", "a", "y">> :> DaySeconds)
        @@ (<<"l", "a", "s", "t", "-", "w", "e", "e", "k">> :> 7 * DaySeconds)
        @@ (<<"y", "e", "s", "t", "e", "r", "d", "a", "y">> :> DaySeconds)
        @@ (<<"t", "o", "d", "a", "y">> :> 0)

\* timedelta(seconds=value), (minutes=value), (hours=value), (days=value)
UnitSeconds(unit) ==
    CASE unit = "s" -> 1
      [] unit = "m" -> 60
      [] unit = "h" -> 3600
      [] unit = "d" -> DaySeconds

\* What a rule does with the text: it returns a value, raises, or lets the
\* text through to the next rule.
Return(v) == [out |-> "return", value |-> v, exc |-> NoExc]
Raise(e) == [out |-> "raise", value |-> 0, exc |-> e]
FallThrough == [out |-> "next", value |-> 0, exc |-> NoExc]

\* if time_str.lower() == 'now'
RuleNow(time_str, now, zone) ==
    IF Lower(time_str) = TokenNow
    THEN Return(NaiveTimestampMs(zone, DatetimeNow(zone, now)))
    ELSE FallThrough

\* if time_str.lower() in named_ranges
RuleNamed(time_str, now, zone) ==
    LET name == Lower(time_str)
        dt == DatetimeNow(zone, now)
    IN  IF name \notin DOMAIN NamedRanges THEN FallThrough
        ELSE IF name = <<"t", "o", "d", "a", "y">>
        THEN Return(NaiveTimestampMs(zone, StartOfDay(dt)))
        ELSE IF name = <<"y", "e", "s", "t", "e", "r", "d", "a", "y">>
        THEN Return(NaiveTimestampMs(zone, StartOfDay(Minus(dt, DaySeconds))))
        ELSE Return(NaiveTimestampMs(zone, Minus(dt, NamedRanges[name])))

\* A rule of relative times whose ValueError is not caught.
RelativeExcept_Propagates(e) == Raise(e)

\* except ValueError: pass
RelativeExcept(e) == IF e.type = "ValueError" THEN FallThrough ELSE Raise(e)

\* if time_str[-1] in ['h', 'd', 'm', 's']: the index raises IndexError on
\* an empty string; int() raises ValueError inside the try block.
RuleRelative(time_str, now, zone) ==
    IF time_str = <<>> THEN Raise(Exc("IndexError", {"string index out of range"}))
    ELSE IF time_str[Len(time_str)] \notin {"h", "d", "m", "s"} THEN FallThrough
    ELSE LET unit == time_str[Len(time_str)]
             value == PyInt(SubSeq(time_str, 1, Len(time_str) - 1))
         IN  IF ~value.ok
             THEN RelativeExcept(Exc("ValueError", {"invalid literal for int()"}))
             ELSE Return(NaiveTimestampMs(zone,
                            Minus(DatetimeNow(zone, now), value.value * UnitSeconds(unit))))

\* if time_str.isdigit() and len(time_str) == 13: return int(time_str)
RuleEpoch(time_str, now, zone) ==
    IF IsDigits(time_str) /\ Len(time_str) = 13
    THEN Return(DigitsVal(time_str))
    ELSE FallThrough

\* "Try with timezone": fromisoformat of the text with Z replaced.
RuleIso(time_str, now, zone) ==
    LET dt == FromIsoFormat(ReplaceZ(time_str))
    IN  IF dt.ok THEN Return(FieldsTimestampMs(zone, dt)) ELSE FallThrough

\* "Try without timezone (assume UTC)"
RuleIsoNaive(time_str, now, zone) ==
    LET dt == Strptime(time_str, TRUE)
    IN  IF dt.ok THEN Return(FieldsTimestampMs(zone, dt)) ELSE FallThrough

\* "Try date only"
RuleDate(time_str, now, zone) ==
    LET dt == Strptime(time_str, FALSE)
    IN  IF dt.ok THEN Return(FieldsTimestampMs(zone, dt)) ELSE FallThrough

UnableToParse ==
    Exc("ValueError", {"Unable to parse time format", "Supported formats"})

\* The result of a rule, tagged with the rule's number.
By(k, r) == [rule |-> k, out |-> r.out, value |-> r.value, exc |-> r.exc]

\* parse_time: the rules in the order of the code; rule 0 is the final raise.
ParseTime(text, now, zone) ==
    LET time_str == Strip(text)
        r1 == RuleNow(time_str, now, zone)
        r2 == RuleNamed(time_str, now, zone)
        r3 == RuleRelative(time_str, now, zone)
        r4 == RuleEpoch(time_str, now, zone)
        r5 == RuleIso(time_str, now, zone)
        r6 == RuleIsoNaive(time_str, now, zone)
        r7 == RuleDate(time_str, now, zone)
    IN  IF r1.out # "next" THEN By(1, r1)
        ELSE IF r2.out # "next" THEN By(2, r2)
        ELSE IF r3.out # "next" THEN By(3, r3)
        ELSE IF r4.out # "next" THEN By(4, r4)
        ELSE IF r5.out # "next" THEN By(5, r5)
        ELSE IF r6.out # "next" THEN By(6, r6)
        ELSE IF r7.out # "next" THEN By(7, r7)
        ELSE By(0, Raise(UnableToParse))

\* The texts passed to parse_time (each with the string it spells).
TimeInputs ==
    {
      \* "now"
      <<"n", "o", "w">>,
      \* " NOW "
      <<" ", "N", "O", "W", " ">>,
      \* "today"
      <<"t", "o", "d", "a", "y">>,
      \* "Yesterday"
      <<"Y", "e", "s", "t", "e", "r", "d", "a", "y">>,
      \* "last-hour"
      <<"l", "a", "s", "t", "-", "h", "o", "u", "r">>,
      \* "last-24h"
      <<"l", "a", "s", "t", "-", "2", "4", "h">>,
      \* "last-day"
      <<"l", "a", "s", "t", "-", "d", "a", "y">>,
      \* "last-week"
      <<"l", "a", "s", "t", "-", "w", "e", "e", "k">>,
      \* "1h"
      <<"1", "h">>,
      \* "2d"
      <<"2", "d">>,
      \* "30m"
      <<"3", "0", "m">>,
      \* "45s"
      <<"4", "5", "s">>,
      \* "7d"
      <<"7", "d">>,
      \* "-1h"
      <<"-", "1", "h">>,
      \* "1H"
      <<"1", "H">>,
      \* "abcd"
      <<"a", "b", "c", "d">>,
      \* "last-24d"
      <<"l", "a", "s", "t", "-", "2", "4", "d">>,
      \* ""
      << >>,
      \* "  "
      <<" ", " ">>,
      \* "0000950400000"
      <<"0", "0", "0", "0", "9", "5", "0", "4", "0", "0", "0", "0", "0">>,
      \* "000950400000"
      <<"0", "0", "0", "9", "5", "0", "4", "0", "0", "0", "0", "0">>,
      \* "1970-01-12T10:00:00Z"
      <<"1", "9", "7", "0", "-", "0", "1", "-", "1", "2",
        "T", "1", "0", ":", "0", "0", ":", "0", "0", "Z">>,
      \* "1970-01-12T10:00:00"
      <<"1", "9", "7", "0", "-", "0", "1", "-", "1",
        "2", "T", "1", "0", ":", "0", "0", ":", "0", "0">>,
      \* "1970-01-12T10:00:00+02:00"
      <<"1", "9", "7", "0", "-", "0", "1", "-", "1", "2", "T", "1",
        "0", ":", "0", "0", ":", "0", "0", "+", "0", "2", ":", "0", "0">>,
      \* "1970-01-12 10:00:00"
      <<"1", "9", "7", "0", "-", "0", "1", "-", "1",
        "2", " ", "1", "0", ":", "0", "0", ":", "0", "0">>,
      \* "1970-01-11T02:30:00"
      <<"1", "9", "7", "0", "-", "0", "1", "-", "1",
        "1", "T", "0", "2", ":", "3", "0", ":", "0", "0">>,
      \* "1970-01-12"
      <<"1", "9", "7", "0", "-", "0", "1", "-", "1", "2">>,
      \* "1970-1-12"
      <<"1", "9", "7", "0", "-", "1", "-", "1", "2">>,
      \* "1970-1-12T9:5:7"
      <<"1", "9", "7", "0", "-", "1", "-",
        "1", "2", "T", "9", ":", "5", ":", "7">>,
      \* "1970-13-01"
      <<"1", "9", "7", "0", "-", "1", "3", "-", "0", "1">>,
      \* "soon"
      <<"s", "o", "o", "n">>
    }

\* The instants at which parse_time is called (milliseconds): before the
\* zone transitions below, half an hour after them, and a day later.
Nows == {820800000, 869400000, 986400123}

\* The local zones: UTC, two fixed offsets, a zone whose clocks go forward
\* by an hour at 1970-01-11T01:00:00Z and one whose clocks go back then.
Zones ==
    {[before |-> 0, after |-> 0, at |-> 0],
     [before |-> 7200, after |-> 7200, at |-> 0],
     [before |-> -18000, after |-> -18000, at |-> 0],
     [before |-> 3600, after |-> 7200, at |-> 867600],
     [before |-> 7200, after |-> 3600, at |-> 867600]}

\* execute_query, "Convert times", for one of its two texts.
InitTime ==
    /\ Fresh([p \in Procs |-> "idle"], 0)
    /\ update_interval = [p \in Procs |-> DefaultUpdateInterval]
    /\ query_id = [p \in Procs |-> 0]
    /\ ValidateIdle
    /\ FormatIdle
    /\ AthenaIdle
    /\ start_time \in TimeInputs
    /\ now_ms \in Nows
    /\ local_zone \in Zones
    /\ tpc = "parse_time"
    /\ parsed = By(0, FallThrough)
    /\ convert_raised = NoExc

pipeline_vars == <<pc, clock, exec_vars, update_interval, query_vars, loop_vars,
                   ctl_vars, exit_code, calls, completed>>

\* start_epoch = self.parse_time(start_time)
CallParseTime ==
    /\ tpc = "parse_time"
    /\ parsed' = ParseTime(start_time, now_ms, local_zone)
    /\ tpc' = IF parsed'.out = "return" THEN "check_range" ELSE "except"
    /\ UNCHANGED <<start_time, now_ms, local_zone, convert_raised>>
    /\ UNCHANGED <<pipeline_vars, validate_vars, format_vars, athena_vars>>

\* except ValueError as e: raise QuerySyntaxError(str(e)); any other
\* exception leaves execute_query as it is.
ConvertTimesExcept ==
    /\ tpc = "except"
    /\ convert_raised' = ParseTimeExcept(parsed.exc)
    /\ tpc' = "raised"
    /\ UNCHANGED <<start_time, now_ms, local_zone, parsed>>
    /\ UNCHANGED <<pipeline_vars, validate_vars, format_vars, athena_vars>>

NextTime ==
    \/ CallParseTime
    \/ ConvertTimesExcept

SpecTime == InitTime /\ [][NextTime]_vars

----------------------------------------------------------------------------
\* format_results and the three formatters.  Field names and values are
\* sequences of characters; a result row is a sequence of field/value pairs.

MaxResultRows == 3   \* a result set holds 0..MaxResultRows rows

\* widths[field] = min(widths[field], 50); if len(value) > 50
MaxColumnWidth == 50

\* The characters of the names and values below, in code point order.
CodePoint(c) ==
    LET ascii == <<" ", "-", ".", "0", "1", "2", "3", "4", "5", "6", "7", "8", "9",
                   "@", "A", "B", "C", "D", "E", "F", "G", "H", "I", "J", "K", "L",
                   "M", "N", "O", "P", "Q", "R", "S", "T", "U", "V", "W", "X", "Y",
                   "Z", "_", "a", "b", "c", "d", "e", "f", "g", "h", "i", "j", "k",
                   "l", "m", "n", "o", "p", "q", "r", "s", "t", "u", "v", "w", "x",
                   "y", "z">>
    IN  CHOOSE i \in 1..Len(ascii) : ascii[i] = c

\* a < b for two strings, as sorted() compares them.
RECURSIVE StrLess(_, _)
StrLess(a, b) ==
    IF b = <<>> THEN FALSE
    ELSE IF a = <<>> THEN TRUE
    ELSE IF a[1] = b[1] THEN StrLess(Tail(a), Tail(b))
    ELSE CodePoint(a[1]) < CodePoint(b[1])

\* sorted(names)
RECURSIVE Sorted(_)
Sorted(names) ==
    IF names = {} THEN <<>>
    ELSE LET least == CHOOSE a \in names : \A b \in names \ {a} : StrLess(a, b)
         IN  <<least>> \o Sorted(names \ {least})

\* metadata_fields = ['@timestamp', '@message', '@logStream', '@log']
MetadataFields ==
    <<<<"@", "t", "i", "m", "e", "s", "t", "a", "m", "p">>,
      <<"@", "m", "e", "s", "s", "a", "g", "e">>,
      <<"@", "l", "o", "g", "S", "t", "r", "e", "a", "m">>,
      <<"@", "l", "o", "g">>>>

\* The rows a response carries (the empty row among them).
RowChoices ==
    {
      << >>,
      <<[field |-> <<"@", "m", "e", "s", "s", "a", "g", "e">>, value |-> <<"h", "i">>],
        [field |-> <<"@", "t", "i", "m", "e", "s", "t", "a", "m", "p">>, value |-> <<"t", "1">>]>>,
      <<[field |-> <<"l", "e", "v", "e", "l">>, value |-> <<"i", "n", "f", "o">>],
        [field |-> <<"@", "l", "o", "g", "S", "t", "r", "e", "a", "m">>, value |-> <<"s">>],
        [field |-> <<"m", "s", "g">>, value |-> <<"m">>]>>,
      <<[field |-> <<"m", "s", "g">>, value |-> <<"x">>],
        [field |-> <<"Z", "o", "n", "e">>, value |-> <<"z">>],
        [field |-> <<"@", "l", "o", "g">>, value |-> <<"g">>],
        [field |-> <<"1", "s", "t">>, value |-> <<"1">>]>>,
      <<[field |-> <<"@", "p", "t", "r">>, value |-> <<"p">>],
        [field |-> <<"l", "e", "v", "e", "l">>, value |-> <<"w", "a", "r", "n">>]>>,
      <<[field |-> <<"l", "e", "v", "e", "l">>, value |-> << >>]>>,
      \* msg: 60 characters, level: 50 characters
      <<[field |-> <<"m", "s", "g">>,
         value |-> <<"0", "1", "2", "3", "4", "5", "6", "7", "8", "9", "0", "1", "2", "3",
                   "4", "5", "6", "7", "8", "9", "0", "1", "2", "3", "4", "5", "6", "7",
                   "8", "9", "0", "1", "2", "3", "4", "5", "6", "7", "8", "9", "0", "1",
                   "2", "3", "4", "5", "6", "7", "8", "9", "0", "1", "2", "3", "4", "5",
                   "6", "7", "8", "9">>],
        [field |-> <<"l", "e", "v", "e", "l">>,
         value |-> <<"a", "b", "c", "d", "e", "f", "g", "h", "i", "j", "a", "b", "c", "d",
                   "e", "f", "g", "h", "i", "j", "a", "b", "c", "d", "e", "f", "g", "h",
                   "i", "j", "a", "b", "c", "d", "e", "f", "g", "h", "i", "j", "a", "b",
                   "c", "d", "e", "f", "g", "h", "i", "j">>]>>,
      \* a field name of 55 characters
      <<[field |-> <<"l", "o", "n", "g", "_", "n", "a", "m", "e", "_", "n", "a", "m", "e",
                   "_", "n", "a", "m", "e", "_", "n", "a", "m", "e", "_", "n", "a", "m",
                   "e", "_", "n", "a", "m", "e", "_", "n", "a", "m", "e", "_", "n", "a",
                   "m", "e", "_", "n", "a", "m", "e", "_", "n", "a", "m", "e", "_">>,
         value |-> <<"v">>]>>
    }

\* The formats a caller asks for: the three supported ones and another.
Formats == {"table", "csv", "json", "xml"}

\* if not results: ...; if not results[0]: ...
IsDegenerate_EmptyOnly(res) == res = <<>>

IsDegenerate(res) == res = <<>> \/ res[1] = <<>>

\* all_fields: the field names of all the rows.
AllFields(res) ==
    {res[i][j].field : <<i, j>> \in {ij \in (1..Len(res)) \X (1..4) : ij[2] <= Len(res[ij[1]])}}

\* sorted_fields as lines 421-424 leave it: the metadata fields that occur,
\* in the order of metadata_fields, then the other fields, sorted.
SortedFields_AllSorted(all_fields) == Sorted(all_fields)

SortedFields(all_fields) ==
    LET IsMetadata(f) == \E k \in 1..Len(MetadataFields) : MetadataFields[k] = f
        Occurs(f) == f \in all_fields
    IN  SelectSeq(MetadataFields, Occurs)
            \o Sorted({f \in all_fields : ~IsMetadata(f)})

\* if exclude_metadata: sorted_fields = [f for f in sorted_fields if not f.startswith('@')]
ExcludeMetadata(exclude, fields) ==
    LET Kept(f) == ~(f # <<>> /\ f[1] = "@")
    IN  IF exclude THEN SelectSeq(fields, Kept) ELSE fields

\* row = {field['field']: field.get('value', '') for field in result}: the
\* keys in the order of their first occurrence, each with its last value.
RowDict(result) ==
    LET n == Len(result)
        firsts == {j \in 1..n : \A k \in 1..(j - 1) : result[k].field # result[j].field}
        Nth(i) == CHOOSE j \in firsts : Cardinality({k \in firsts : k < j}) = i - 1
        Last(f) == CHOOSE j \in 1..n :
                      /\ result[j].field = f
                      /\ \A k \in (j + 1)..n : result[k].field # f
    IN  [i \in 1..Cardinality(firsts) |->
            [field |-> result[Nth(i)].field,
             value |-> result[Last(result[Nth(i)].field)].value]]

\* row.get(field, '')
RowGet(row, f) ==
    IF \E j \in 1..Len(row) : row[j].field = f
    THEN row[CHOOSE j \in 1..Len(row) : row[j].field = f].value
    ELSE <<>>

\* What a formatter leaves: the lines that reached the file or the standard
\* output (a line is a sequence of cells; a JSON object is its row), and
\* the exception that left it.
Rendered(ls, e) == [lines |-> ls, exc |-> e]

\* _format_json: json.dumps(rows, indent=2).
FormatJson(rows) == Rendered(rows, NoExc)

\* _format_csv: csv.DictWriter(f, fieldnames=fields), writeheader(),
\* writerows(rows).  A row with a key outside fieldnames raises ValueError
\* (extrasaction='raise'); the rows before it are already written to the
\* file, while the StringIO of the other branch is never printed.
FormatCsv(rows, fields, to_file) ==
    LET Extra(i) == \E j \in 1..Len(rows[i]) :
                        \A k \in 1..Len(fields) : fields[k] # rows[i][j].field
        bad == {i \in 1..Len(rows) : Extra(i)}
        written == IF bad = {} THEN Len(rows)
                   ELSE (CHOOSE i \in bad : \A k \in bad : i <= k) - 1
        Line(i) == [j \in 1..Len(fields) |-> RowGet(rows[i], fields[j])]
        file == <<fields>> \o [i \in 1..written |-> Line(i)]
    IN  IF bad = {} THEN Rendered(file, NoExc)
        ELSE Rendered(IF to_file THEN file ELSE <<>>,
                      Exc("ValueError", {"dict contains fields not in fieldnames"}))

\* s.ljust(width)
Ljust(s, width) == s \o [k \in 1..(width - Len(s)) |-> " "]

\* if len(value) > 50: value = value[:47] + '...'
Clip_Keep(value) == value

Clip(value) ==
    IF Len(value) > MaxColumnWidth
    THEN SubSeq(value, 1, MaxColumnWidth - 3) \o <<".", ".", ".">>
    ELSE value

\* _format_table: the header, the separator and one line for each row.
FormatTable(rows, fields) ==
    LET Longest(f) ==
            CHOOSE w \in {Len(f)} \cup {Len(RowGet(rows[i], f)) : i \in 1..Len(rows)} :
                /\ w >= Len(f)
                /\ \A i \in 1..Len(rows) : w >= Len(RowGet(rows[i], f))
        Width(f) == IF Longest(f) > MaxColumnWidth THEN MaxColumnWidth ELSE Longest(f)
        Value(i, f) == Clip(RowGet(rows[i], f))
        header == [j \in 1..Len(fields) |-> Ljust(fields[j], Width(fields[j]))]
        separator == [j \in 1..Len(fields) |-> [k \in 1..Width(fields[j]) |-> "-"]]
        Line(i) == [j \in 1..Len(fields) |-> Ljust(Value(i, fields[j]), Width(fields[j]))]
    IN  Rendered(<<header, separator>> \o [i \in 1..Len(rows) |-> Line(i)], NoExc)

\* format_results, lines 426-443, for a result set that is not degenerate.
Dispatch(res, fmt, to_file, fields) ==
    LET rows == [i \in 1..Len(res) |-> RowDict(res[i])]
    IN  IF fmt = "json" THEN FormatJson(rows)
        ELSE IF fmt = "csv" THEN FormatCsv(rows, fields, to_file)
        ELSE IF fmt = "table" THEN FormatTable(rows, fields)
        ELSE Rendered(<<>>, Exc("ValueError", {"Unsupported format"}))

\* One call of format_results.
InitFormat ==
    /\ Fresh([p \in Procs |-> "idle"], 0)
    /\ update_interval = [p \in Procs |-> DefaultUpdateInterval]
    /\ query_id = [p \in Procs |-> 0]
    /\ ValidateIdle
    /\ TimeIdle
    /\ AthenaIdle
    /\ results \in UNION {[1..n -> RowChoices] : n \in 0..MaxResultRows}
    /\ format \in Formats
    /\ output_file \in BOOLEAN
    /\ exclude_metadata \in BOOLEAN
    /\ fpc = "format_results"
    /\ sorted_fields = <<>>
    /\ output = <<>>
    /\ no_results = FALSE
    /\ format_raised = NoExc

\* Lines 405-424: the two "No results returned from query" returns, then
\* all_fields and sorted_fields.
SortFields ==
    /\ fpc = "format_results"
    /\ IF IsDegenerate(results)
       THEN /\ no_results' = TRUE
            /\ fpc' = "returned"
            /\ UNCHANGED sorted_fields
       ELSE /\ sorted_fields' = SortedFields(AllFields(results))
            /\ fpc' = "exclude_metadata"
            /\ UNCHANGED no_results
    /\ UNCHANGED <<results, format, output_file, exclude_metadata, output, format_raised>>
    /\ UNCHANGED <<pipeline_vars, validate_vars, time_vars, athena_vars>>

\* Lines 426-443: the metadata filter, the rows and the formatter.
FormatRows ==
    /\ fpc = "exclude_metadata"
    /\ sorted_fields' = ExcludeMetadata(exclude_metadata, sorted_fields)
    /\ LET r == Dispatch(results, format, output_file, sorted_fields')
       IN  /\ output' = r.lines
           /\ format_raised' = r.exc
           /\ fpc' = IF r.exc = NoExc THEN "returned" ELSE "raised"
    /\ UNCHANGED <<results, format, output_file, exclude_metadata, no_results>>
    /\ UNCHANGED <<pipeline_vars, validate_vars, time_vars, athena_vars>>

NextFormat ==
    \/ SortFields
    \/ FormatRows

SpecFormat == InitFormat /\ [][NextFormat]_vars

----------------------------------------------------------------------------
\* The Athena executor (query_athena.py): execute_and_download and
\* _wait_for_query_completion, as main calls them.

MaxAthenaPolls == 4   \* a query is fetched at most MaxAthenaPolls times

\* The states of a query execution that get_query_execution reports.
AthenaStates == {"QUEUED", "RUNNING", "SUCCEEDED", "FAILED", "CANCELLED"}

\* if status in ['SUCCEEDED', 'FAILED', 'CANCELLED']: break
LeavesLoop(status) == status \in {"SUCCEEDED", "FAILED", "CANCELLED"}

\* A chain that takes a cancelled query for a finished one.
AfterLoop_CancelledReturns(status) ==
    IF status = "FAILED" THEN "exit" ELSE "return"

\* The if/elif chain after the loop: the method returns (also when no
\* branch matches) or calls sys.exit(1).
AfterLoop(status) ==
    IF status = "SUCCEEDED" THEN "return"
    ELSE IF status = "FAILED" THEN "exit"
    ELSE IF status = "CANCELLED" THEN "exit"
    ELSE "return"

\* main: one executor, one query, with or without --no-download.
InitAthena ==
    /\ Fresh([p \in Procs |-> "idle"], 0)
    /\ update_interval = [p \in Procs |-> DefaultUpdateInterval]
    /\ query_id = [p \in Procs |-> 0]
    /\ ValidateIdle
    /\ TimeIdle
    /\ FormatIdle
    /\ no_download \in BOOLEAN
    /\ apc = "start_query_execution"
    /\ observed = <<>>
    /\ sleeps = <<>>
    /\ athena_exit = -1
    /\ athena_raised = NoExc
    /\ downloads = 0

\* An exception that no try statement catches ends the process.
Uncaught(e) ==
    /\ athena_raised' = e
    /\ apc' = "traceback"

\* execute_query: start_query_execution answers with an id or raises.
StartQueryExecution ==
    /\ apc = "start_query_execution"
    /\ \/ /\ apc' = "get_query_execution"
          /\ UNCHANGED athena_raised
       \/ \E e \in {ClientError("InvalidRequestException"), EndpointConnectionError} :
             Uncaught(e)
    /\ UNCHANGED <<no_download, observed, sleeps, athena_exit, downloads>>
    /\ UNCHANGED <<pipeline_vars, validate_vars, time_vars, format_vars>>

\* _wait_for_query_completion, one turn of while True up to the break: the
\* fetch answers with a state or raises.
GetQueryExecution ==
    /\ apc = "get_query_execution"
    /\ Len(observed) < MaxAthenaPolls
    /\ \/ \E status \in AthenaStates :
             /\ observed' = Append(observed, status)
             /\ apc' = IF LeavesLoop(status) THEN "after_loop" ELSE "sleep"
             /\ UNCHANGED athena_raised
       \/ /\ \E e \in {ClientError("ThrottlingException"), KeyboardInterrupt} : Uncaught(e)
          /\ UNCHANGED observed
    /\ UNCHANGED <<no_download, sleeps, athena_exit, downloads>>
    /\ UNCHANGED <<pipeline_vars, validate_vars, time_vars, format_vars>>

\* time.sleep(1), which a user interrupt cuts short.
AthenaSleep ==
    /\ apc = "sleep"
    /\ \/ /\ sleeps' = Append(sleeps, 1)
          /\ apc' = "get_query_execution"
          /\ UNCHANGED athena_raised
       \/ /\ Uncaught(KeyboardInterrupt)
          /\ UNCHANGED sleeps
    /\ UNCHANGED <<no_download, observed, athena_exit, downloads>>
    /\ UNCHANGED <<pipeline_vars, validate_vars, time_vars, format_vars>>

\* After the loop: sys.exit(1), or the return to execute_query and from it
\* to execute_and_download or to main.
WaitReturns ==
    /\ apc = "after_loop"
    /\ IF AfterLoop(observed[Len(observed)]) = "exit"
       THEN /\ athena_exit' = 1
            /\ apc' = "exited"
       ELSE /\ apc' = IF no_download THEN "done" ELSE "download_results_from_s3"
            /\ UNCHANGED athena_exit
    /\ UNCHANGED <<no_download, observed, sleeps, athena_raised, downloads>>
    /\ UNCHANGED <<pipeline_vars, validate_vars, time_vars, format_vars>>

\* download_results_from_s3: the second get_query_execution and the
\* download answer or raise.
DownloadResultsFromS3 ==
    /\ apc = "download_results_from_s3"
    /\ downloads' = downloads + 1
    /\ \/ /\ apc' = "done"
          /\ UNCHANGED athena_raised
       \/ \E e \in {ClientError("404"), EndpointConnectionError} : Uncaught(e)
    /\ UNCHANGED <<no_download, observed, sleeps, athena_exit>>
    /\ UNCHANGED <<pipeline_vars, validate_vars, time_vars, format_vars>>

NextAthena ==
    \/ StartQueryExecution
    \/ GetQueryExecution
    \/ AthenaSleep
    \/ WaitReturns
    \/ DownloadResultsFromS3

SpecAthena == InitAthena /\ [][NextAthena]_vars

----------------------------------------------------------------------------
\* The claims.

Past(p, pcs) == pc[p] \notin pcs

\* "Check completion" has seen the last response fetched.
LastResponseChecked(p) == checked[p] = fetched[p] /\ fetch_failed[p] = 0

\* C1: wait_for_results returns normally only when the fetched status is
\* Complete, and then returns that very response; on Failed, Cancelled or
\* Timeout it ends the process with exit status 1, returns nothing, and
\* format_results is never called.
C1_ReturnsOnlyOnComplete ==
    \A p \in Procs :
        /\ "wait_for_results" \in completed[p] =>
              /\ response[p].status = "Complete"
              /\ returned[p] = response[p]
        /\ Called(p, "format_results") => returned[p].status = "Complete"
        /\ (response[p].status \in FailureStates /\ LastResponseChecked(p)) =>
              /\ returned[p] = NoResponse
              /\ "wait_for_results" \notin completed[p]
              /\ ~Called(p, "format_results")
              /\ raised[p] = SystemExit(1)
              /\ pc[p] \in {"except", "exited"}
              /\ pc[p] = "exited" => exit_code[p] = 1

C1_Witness ==
    \E p \in Procs :
        /\ response[p].status = "Cancelled"
        /\ LastResponseChecked(p)
        /\ pc[p] = "exited"
        /\ exit_code[p] = 1

\* C2: whatever the statuses before it and whatever update_interval, the
\* terminal status gets exactly one status line, printed even when fewer
\* than update_interval seconds have passed since the previous line, and no
\* status line follows it.
C2_OneTerminalLine ==
    \A p \in Procs :
        /\ \A i \in 1..(Len(lines[p]) - 1) : lines[p][i].status \notin TerminalStates
        /\ (response[p].status \in TerminalStates /\ LastResponseChecked(p)) =>
              /\ Len(lines[p]) >= 1
              /\ lines[p][Len(lines[p])].status = response[p].status
              /\ lines[p][Len(lines[p])].fetch = fetched[p]

C2_Witness ==
    \E p \in Procs :
        /\ Len(lines[p]) >= 2
        /\ lines[p][Len(lines[p])].status \in TerminalStates
        /\ lines[p][Len(lines[p])].at - lines[p][Len(lines[p]) - 1].at < update_interval[p]
        /\ pc[p] = "exited"

\* C3: update_interval only gates printing.  Before the (k+1)-th fetch
\* exactly k sleeps were made, each of 2 seconds whatever update_interval
\* is, and a line for a non-terminal status is printed only when at least
\* update_interval seconds have passed since the previous line (since the
\* start of the wait for the first line).
C3_IntervalGatesPrintingOnly ==
    \A p \in Procs :
        /\ pc[p] = "get_query_results" => Len(slept[p]) = fetched[p]
        /\ pc[p] = "check_status" => Len(slept[p]) = fetched[p] - 1
        /\ \A i \in 1..Len(slept[p]) : slept[p][i] = 2
        /\ \A i \in 1..Len(lines[p]) :
              lines[p][i].status \notin TerminalStates =>
                  lines[p][i].at - (IF i = 1 THEN own_start[p] ELSE lines[p][i - 1].at)
                      >= update_interval[p]

C3_Witness ==
    \E p \in Procs :
        /\ update_interval[p] = 3
        /\ Len(lines[p]) >= 2
        /\ lines[p][1].status \notin TerminalStates
        /\ lines[p][2].status \notin TerminalStates
        /\ Len(slept[p]) >= 2

\* C4: two calls of wait_for_results whose iterations interleave on one
\* executor do not influence each other: the elapsed time of each is counted
\* from its own start, and its update gating from its own last update.
C4_CallsAreIsolated ==
    \A p \in Procs :
        /\ pc[p] \in {"get_query_results", "check_status"} =>
              elapsed[p] = current_time[p] - own_start[p]
        /\ pc[p] = "check_status" =>
              (ShouldUpdate(current_time[p], self_last_update_time, update_interval[p])
                  <=> ShouldUpdate(current_time[p], own_last[p], update_interval[p]))

\* The seconds that an elapsed text <<minutes, seconds>> stands for.
ShownSeconds(shown) == shown[1] * 60 + shown[2]

\* C5: within one call of wait_for_results the elapsed times shown on
\* successive status lines never decrease, and the lines come in the order
\* in which their statuses were fetched.
C5_LinesInOrder ==
    \A p \in Procs :
        \A i, j \in 1..Len(lines[p]) :
            i < j =>
                /\ ShownSeconds(lines[p][i].shown) <= ShownSeconds(lines[p][j].shown)
                /\ lines[p][i].elapsed <= lines[p][j].elapsed
                /\ lines[p][i].fetch < lines[p][j].fetch

C5_Witness ==
    \E p \in Procs :
        /\ Len(lines[p]) >= 3
        /\ lines[p][1].shown = <<0, 0>>
        /\ lines[p][3].shown[1] >= 1

\* C6: a user interrupt, wherever it is raised (in the status fetch and in
\* the sleep too), ends the run with exit status 130; a Cancelled status
\* and every other failure end it with exit status 1; a run without a
\* failure ends with status 0.
C6_ExitStatus ==
    \A p \in Procs :
        pc[p] = "exited" =>
            /\ interrupted[p] <=> exit_code[p] = 130
            /\ (fail_kind[p] \notin {"none", "interrupt"}) <=> exit_code[p] = 1
            /\ fail_kind[p] = "none" <=> exit_code[p] = 0
            /\ fail_kind[p] = "interrupt" <=> interrupted[p]
            /\ response[p].status = "Cancelled" /\ LastResponseChecked(p)
                  => exit_code[p] = 1

C6_Witness ==
    \E p \in Procs :
        /\ pc[p] = "exited"
        /\ interrupted[p]
        /\ fetch_failed[p] = 2
        /\ exit_code[p] = 130

\* Both endpoints are resolved and execute_query has not returned.
Resolved(p) == "parse_time" \in completed[p] /\ "start_query" \notin completed[p]

\* C7: whenever both endpoints are resolved and start is not strictly before
\* end, execute_query fails with QuerySyntaxError, and neither a catalog
\* lookup nor start_query is performed.
C7_EmptyRangeRejected ==
    \A p \in Procs :
        (Resolved(p) /\ start_epoch[p] >= end_epoch[p]) =>
            /\ ~Called(p, "describe_log_groups")
            /\ ~Called(p, "start_query")
            /\ (Past(p, {"check_range"}) /\ ~interrupted[p]) =>
                  /\ raised[p].type = "QuerySyntaxError"
                  /\ fail_kind[p] = "query_syntax"

C7_Witness ==
    \E p \in Procs :
        /\ Resolved(p)
        /\ start_epoch[p] = end_epoch[p]
        /\ raised[p].type = "QuerySyntaxError"
        /\ pc[p] = "exited"

\* Every call made so far came after the normal return of the stage before.
StagesInOrder(p) ==
    /\ Called(p, "start_query") =>
          {"parse_time", "check_range", "validate_log_groups"} \subseteq completed[p]
    /\ Called(p, "get_query_results") =>
          /\ "start_query" \in completed[p]
          /\ query_id[p] = p
    /\ Called(p, "format_results") =>
          /\ "wait_for_results" \in completed[p]
          /\ response[p].status = "Complete"
          /\ checked[p] = fetched[p]

\* C8: the stages run in pipeline order: start_query only after both
\* endpoints were resolved and validation succeeded, get_query_results only
\* after start_query returned a query id, format_results only after a
\* Complete status was observed; once a stage has failed, no later stage
\* runs.
C8_PipelineOrder ==
    /\ [](\A p \in Procs : StagesInOrder(p))
    /\ [][\A p \in Procs :
             fail_kind[p] # "none" =>
                 /\ calls'[p] = calls[p]
                 /\ completed'[p] = completed[p]]_vars

C8_Witness ==
    \E p \in Procs :
        /\ Called(p, "format_results")
        /\ fetched[p] >= 2
        /\ pc[p] = "exited"
        /\ exit_code[p] = 0

\* C9: no failure is retried: a run calls start_query at most once, a
\* rate-limit rejection ends it at once, and after a status fetch that
\* failed no further status fetch is issued.
C9_NoRetry ==
    \A p \in Procs :
        /\ Cardinality({i \in 1..Len(calls[p]) : calls[p][i] = "start_query"}) <= 1
        /\ rejection[p].error_code = "LimitExceededException" =>
              /\ pc[p] \in {"except", "exited"}
              /\ fetched[p] = 0
        /\ fetch_failed[p] # 0 =>
              /\ fetched[p] = fetch_failed[p]
              /\ calls[p][Len(calls[p])] = "get_query_results"
              /\ pc[p] \in {"except", "exited"}

C9_Witness ==
    \E p \in Procs :
        /\ fetch_failed[p] = 2
        /\ ~interrupted[p]
        /\ pc[p] = "exited"

\* C10: every rejection of start_query maps to exactly one outcome: a
\* malformed query (MalformedQueryException, InvalidParameterException)
\* becomes QuerySyntaxError, a rate limit (LimitExceededException) ends the
\* process with exit status 1, every other failure becomes
\* CloudWatchQueryError with the underlying message in its own; nothing
\* else leaves execute_query.
C10_RejectionMapping ==
    \A p \in Procs :
        IsException(rejection[p]) =>
            LET r == rejection[p]
                malformed == r.error_code \in {"MalformedQueryException",
                                               "InvalidParameterException"}
                rate_limit == r.error_code = "LimitExceededException"
            IN  /\ malformed => raised[p].type = "QuerySyntaxError"
                /\ rate_limit =>
                      /\ raised[p] = SystemExit(1)
                      /\ pc[p] = "exited" => exit_code[p] = 1
                /\ (~malformed /\ ~rate_limit) =>
                      /\ raised[p].type = "CloudWatchQueryError"
                      /\ r.text \subseteq raised[p].text
                /\ raised[p].type \in {"QuerySyntaxError", "SystemExit",
                                       "CloudWatchQueryError"}

C10_Witness ==
    \E p \in Procs :
        /\ rejection[p].error_code = "LimitExceededException"
        /\ pc[p] = "exited"
        /\ exit_code[p] = 1

\* The loop of validate_log_groups has dealt with the i-th pattern: it went
\* on to the next one, or the call failed at it.
Handled(i) ==
    \/ i < next_pattern
    \/ i = next_pattern /\ vpc = "failed"

InCatalog(name) == \E i \in 1..Len(catalog) : catalog[i] = name

\* What a pattern contributes: a wildcard pattern the catalog's names under
\* its prefix, in discovery order, a literal pattern its own name.
PatternMatches(pattern) ==
    IF IsWildcard(pattern) THEN DescribeLogGroups(Prefix(pattern)) ELSE <<pattern>>

RECURSIVE ConcatMatches(_)
ConcatMatches(k) ==
    IF k = 0 THEN <<>> ELSE ConcatMatches(k - 1) \o PatternMatches(log_groups[k])

C12_AbsentLiteralRejected ==
    \A i \in 1..Len(log_groups) :
        (Handled(i) /\ ~IsWildcard(log_groups[i]) /\ ~InCatalog(log_groups[i])) =>
            /\ v_raised.type \in {"LogGroupNotFoundError", "ClientError"}
            /\ \A k \in 1..Len(validated_names) : validated_names[k] # log_groups[i]

\* C13: a wildcard pattern that matches no name of the catalog makes
\* validate_log_groups fail with LogGroupNotFoundError (or with the
\* service's refusal of the lookup), wherever it stands in the sequence and
\* whatever the patterns before it matched.
C13_EmptyWildcardRejected ==
    \A i \in 1..Len(log_groups) :
        (Handled(i) /\ IsWildcard(log_groups[i])
            /\ DescribeLogGroups(Prefix(log_groups[i])) = <<>>) =>
            v_raised.type \in {"LogGroupNotFoundError", "ClientError"}

\* C14: every start_query call carries a non-empty list of at most 20 log
\* group names, whatever the pattern list.
C14_SubmitsOneToTwenty ==
    sq_called => (Len(sq_names) >= 1 /\ Len(sq_names) <= 20)

\* parse_time has been called and has returned or raised.
TimeCalled == tpc \in {"check_range", "except", "raised"}

\* The text the rules see.
Stripped == Strip(start_time)

\* The text has the shape rule k is for: the token now, a named range, an
\* integer followed by a unit, thirteen digits, an ISO-8601 timestamp or
\* date as fromisoformat reads it, a timestamp and a date as strptime does.
RuleMatches(k, s) ==
    CASE k = 1 -> Lower(s) = TokenNow
      [] k = 2 -> Lower(s) \in DOMAIN NamedRanges
      [] k = 3 -> /\ s # <<>>
                  /\ s[Len(s)] \in {"s", "m", "h", "d"}
                  /\ PyInt(SubSeq(s, 1, Len(s) - 1)).ok
      [] k = 4 -> IsDigits(s) /\ Len(s) = 13
      [] k = 5 -> FromIsoFormat(ReplaceZ(s)).ok
      [] k = 6 -> Strptime(s, TRUE).ok
      [] k = 7 -> Strptime(s, FALSE).ok

\* Rule k tries to parse the text and the parse fails.
ParseFails(k, s) ==
    CASE k = 3 -> /\ s # <<>>
                  /\ s[Len(s)] \in {"s", "m", "h", "d"}
                  /\ ~PyInt(SubSeq(s, 1, Len(s) - 1)).ok
      [] k = 5 -> ~FromIsoFormat(ReplaceZ(s)).ok
      [] k = 6 -> ~Strptime(s, TRUE).ok
      [] k = 7 -> ~Strptime(s, FALSE).ok
      [] OTHER -> FALSE

\* The value rule k gives for the text.
RuleValue(k, s) ==
    (CASE k = 1 -> RuleNow(s, now_ms, local_zone)
       [] k = 2 -> RuleNamed(s, now_ms, local_zone)
       [] k = 3 -> RuleRelative(s, now_ms, local_zone)
       [] k = 4 -> RuleEpoch(s, now_ms, local_zone)
       [] k = 5 -> RuleIso(s, now_ms, local_zone)
       [] k = 6 -> RuleIsoNaive(s, now_ms, local_zone)
       [] k = 7 -> RuleDate(s, now_ms, local_zone)).value

\* C15: parse_time applies its rules in the order now, named range,
\* relative duration, 13-digit epoch milliseconds, ISO-8601 (fromisoformat),
\* timestamp without zone, bare date, and returns the value of the first
\* rule whose shape the text has; a rule whose parse fails does not decide
\* the outcome: the text goes on to the next rule.
C15_FirstMatchingRule ==
    TimeCalled =>
        LET matching == {k \in 1..7 : RuleMatches(k, Stripped)}
        IN  /\ matching # {} =>
                LET first == CHOOSE k \in matching : \A j \in matching : k <= j
                IN  /\ parsed.out = "return"
                    /\ parsed.rule = first
                    /\ parsed.value = RuleValue(first, Stripped)
            /\ matching = {} => parsed.out = "raise"
            /\ \A k \in 1..7 : ParseFails(k, Stripped) => parsed.rule # k

C15_Witness ==
    /\ TimeCalled
    /\ ParseFails(5, Stripped)
    /\ ParseFails(6, Stripped)
    /\ parsed.rule = 7
    /\ parsed.out = "return"

\* C16: a text that matches no rule, the empty and the blank text included,
\* makes parse_time fail with the ValueError that names the supported
\* formats, and execute_query raise QuerySyntaxError for it; no exception of
\* another type leaves parse_time.
C16_TimeFormatError ==
    TimeCalled =>
        /\ (\A k \in 1..7 : ~RuleMatches(k, Stripped)) =>
              /\ parsed.out = "raise"
              /\ parsed.exc.type = "ValueError"
              /\ "Supported formats" \in parsed.exc.text
              /\ tpc = "raised" => convert_raised.type = "QuerySyntaxError"
        /\ parsed.out = "raise" => parsed.exc.type = "ValueError"

\* The instant of what a parser read, taken as UTC.
UtcMs(f) ==
    (DaysFromCivil(f.year, f.month, f.day) * DaySeconds
        + f.hour * 3600 + f.minute * 60 + f.second) * 1000

\* C17: an ISO-8601 timestamp without a zone marker is read as UTC, so that
\* parse_time gives it the value it gives the same text followed by "Z",
\* in every local zone; a bare date is midnight UTC of that date.
C17_NaiveIsUtc ==
    LET f == FromIsoFormat(Stripped)
        d == Strptime(Stripped, FALSE)
    IN  (TimeCalled /\ parsed.out = "return") =>
            /\ (parsed.rule = 5 /\ f.ok /\ ~f.aware /\ Len(Stripped) > 10) =>
                  parsed.value = ParseTime(Append(Stripped, "Z"), now_ms, local_zone).value
            /\ (parsed.rule \in {5, 7} /\ d.ok) => parsed.value = UtcMs(d)

\* C18: for an integer n followed by a unit s, m, h or d, parse_time returns
\* now minus n times 1000, 60000, 3600000 or 86400000 milliseconds, now
\* being the instant of the call.
C18_RelativeIsNowMinus ==
    LET s == Stripped
        unit == s[Len(s)]
        n == PyInt(SubSeq(s, 1, Len(s) - 1)).value
        unit_ms == CASE unit = "s" -> 1000
                     [] unit = "m" -> 60000
                     [] unit = "h" -> 3600000
                     [] unit = "d" -> 86400000
    IN  (TimeCalled /\ RuleMatches(3, s)) =>
            /\ parsed.out = "return"
            /\ parsed.value = now_ms - n * unit_ms

----------------------------------------------------------------------------
\* format_results (SpecFormat).

\* C19: when the row sequence is empty or its first row is empty,
\* format_results prints that there are no results, renders nothing and
\* raises nothing, whatever the format and whatever exclude_metadata.
C19_NoResults ==
    (fpc # "format_results" /\ (results = <<>> \/ results[1] = <<>>)) =>
        /\ fpc = "returned"
        /\ no_results
        /\ output = <<>>
        /\ format_raised = NoExc

\* An empty first row before a row with metadata fields, for CSV without
\* metadata.
C19_Witness ==
    /\ fpc = "returned"
    /\ no_results
    /\ Len(results) = 2
    /\ results[1] = <<>>
    /\ Len(results[2]) = 2
    /\ format = "csv"
    /\ exclude_metadata

\* a comes before b in a field schema.
SchemaBefore(a, b) ==
    LET Rank(f) == IF \E k \in 1..4 : MetadataFields[k] = f
                   THEN CHOOSE k \in 1..4 : MetadataFields[k] = f
                   ELSE 5
    IN  \/ Rank(a) < Rank(b)
        \/ Rank(a) = 5 /\ Rank(b) = 5 /\ StrLess(a, b)

\* C20: the schema format_results computes holds every field name of every
\* row exactly once and nothing else, the fields @timestamp, @message,
\* @logStream, @log that occur first and in this order, the others after
\* them in lexicographic order; the rows' order plays no part in it.
C20_FieldSchema ==
    (\/ fpc = "exclude_metadata"
     \/ fpc \in {"returned", "raised"} /\ ~no_results /\ ~exclude_metadata) =>
        /\ \A i \in 1..Len(results) : \A j \in 1..Len(results[i]) :
              Cardinality({k \in 1..Len(sorted_fields) :
                              sorted_fields[k] = results[i][j].field}) = 1
        /\ \A k \in 1..Len(sorted_fields) :
              \E i \in 1..Len(results) : \E j \in 1..Len(results[i]) :
                  results[i][j].field = sorted_fields[k]
        /\ \A k \in 1..Len(sorted_fields) : \A l \in (k + 1)..Len(sorted_fields) :
              SchemaBefore(sorted_fields[k], sorted_fields[l])

\* Six fields of two rows: msg, Zone, @log, 1st, then @message, @timestamp.
C20_Witness ==
    /\ fpc = "exclude_metadata"
    /\ Len(results) = 2
    /\ Len(results[1]) = 4
    /\ Len(results[2]) = 2
    /\ results[1][1].field = <<"m", "s", "g">>
    /\ results[2][1].field = MetadataFields[2]
    /\ Len(sorted_fields) = 6
    /\ sorted_fields[1] = MetadataFields[1]
    /\ sorted_fields[3] = MetadataFields[4]
    /\ sorted_fields[4] = <<"1", "s", "t">>
    /\ sorted_fields[5] = <<"Z", "o", "n", "e">>

\* A privileged field: its name begins with the metadata marker.
Privileged(f) == f # <<>> /\ f[1] = "@"

\* format_results went past the "no results" returns and is over.
Formatted(fmt) == fpc \in {"returned", "raised"} /\ ~no_results /\ format = fmt

\* The table and CSV lines written: no header cell names a privileged
\* field, and no line has more cells than the header.
NoPrivilegedColumn ==
    output # <<>> =>
        /\ \A j \in 1..Len(output[1]) : ~Privileged(output[1][j])
        /\ \A i \in 1..Len(output) : Len(output[i]) = Len(output[1])

\* C21: with exclude_metadata set and rows that carry privileged fields,
\* format_results returns normally for table, csv and json, and what it
\* renders holds neither the name nor the value of a privileged field.
C21_ExcludedNotRendered ==
    (/\ exclude_metadata
     /\ \E fmt \in {"table", "csv", "json"} : Formatted(fmt)
     /\ \E i \in 1..Len(results) : \E j \in 1..Len(results[i]) :
            Privileged(results[i][j].field)) =>
        /\ fpc = "returned"
        /\ format_raised = NoExc
        /\ format \in {"table", "csv"} => NoPrivilegedColumn
        /\ format = "json" =>
              \A i \in 1..Len(output) : \A j \in 1..Len(output[i]) :
                  ~Privileged(output[i][j].field)

\* The value row i has for field f, the empty string when it has none.
ValueOf(i, f) ==
    IF \E j \in 1..Len(results[i]) : results[i][j].field = f
    THEN results[i][CHOOSE j \in 1..Len(results[i]) : results[i][j].field = f].value
    ELSE <<>>

\* C22: the JSON output is an array of one object for each row, in the rows'
\* order, and each object has the fields of the computed schema, all of
\* them and in the schema's order, with the empty string for a field its
\* row does not have.
C22_JsonObjectsFollowSchema ==
    Formatted("json") =>
        /\ Len(output) = Len(results)
        /\ \A i \in 1..Len(output) :
              output[i] = [k \in 1..Len(sorted_fields) |->
                              [field |-> sorted_fields[k],
                               value |-> ValueOf(i, sorted_fields[k])]]

\* cell is text followed by spaces only.
Padded(cell, text) ==
    /\ Len(cell) >= Len(text)
    /\ SubSeq(cell, 1, Len(text)) = text
    /\ \A k \in (Len(text) + 1)..Len(cell) : cell[k] = " "

\* The lines from the first data line on are one line for each row, in the
\* rows' order, of one cell for each schema field, blank for a field the
\* row does not have.
OneLinePerRow(first) ==
    /\ Len(output) = first - 1 + Len(results)
    /\ \A i \in 1..Len(results) :
          /\ Len(output[first - 1 + i]) = Len(sorted_fields)
          /\ \A k \in 1..Len(sorted_fields) :
                \/ \E j \in 1..Len(results[i]) : results[i][j].field = sorted_fields[k]
                \/ Padded(output[first - 1 + i][k], <<>>)

\* Some row lacks a field that another row has.
Sparse ==
    \E i, l \in 1..Len(results) : \E j \in 1..Len(results[i]) :
        \A k \in 1..Len(results[l]) : results[l][k].field # results[i][j].field

\* C23: for sparse rows the CSV and the table output are a header that is
\* the computed schema, in its order, and then one data line for each row
\* in the rows' order, with one cell for each schema field and an empty
\* cell where the row lacks the field; no row is left out or refused.
C23_SparseRowsRendered ==
    /\ (Sparse /\ Formatted("csv")) =>
          /\ format_raised = NoExc
          /\ output # <<>> /\ output[1] = sorted_fields
          /\ OneLinePerRow(2)
          /\ \A i \in 1..Len(results) : \A k \in 1..Len(sorted_fields) :
                output[1 + i][k] = ValueOf(i, sorted_fields[k])
    /\ (Sparse /\ Formatted("table")) =>
          /\ format_raised = NoExc
          /\ Len(output) >= 2 /\ Len(output[1]) = Len(sorted_fields)
          /\ \A k \in 1..Len(sorted_fields) : Padded(output[1][k], sorted_fields[k])
          /\ OneLinePerRow(3)

\* The width of the column of field f: the longest of the name and the
\* values, 50 at most.
ColumnWidth(f) ==
    LET lens == {Len(f)} \cup {Len(ValueOf(i, f)) : i \in 1..Len(results)}
        longest == CHOOSE w \in lens : \A x \in lens : x <= w
    IN  IF longest > 50 THEN 50 ELSE longest

\* C24: in the table output no value cell is wider than 50 characters: a
\* value of more than 50 characters is rendered as its first 47 characters
\* and "...", a value of 50 characters or fewer as itself, padded with
\* spaces to the width of its column.
C24_ValueCellsClipped ==
    Formatted("table") =>
        \A i \in 1..Len(results) : \A k \in 1..Len(sorted_fields) :
            LET cell == output[2 + i][k]
                value == ValueOf(i, sorted_fields[k])
            IN  /\ Len(cell) <= 50
                /\ IF Len(value) > 50
                   THEN cell = SubSeq(value, 1, 47) \o <<".", ".", ".">>
                   ELSE /\ Padded(cell, value)
                        /\ Len(cell) = ColumnWidth(sorted_fields[k])

\* A row with a value of 60 and a value of 50 characters, after a row whose
\* values in the same columns are short.
C24_Witness ==
    /\ Formatted("table")
    /\ fpc = "returned"
    /\ Len(results) = 2
    /\ Len(sorted_fields) = 3
    /\ Len(ValueOf(1, sorted_fields[3])) = 1
    /\ Len(ValueOf(2, sorted_fields[3])) = 60
    /\ Len(ValueOf(2, sorted_fields[2])) = 50
    /\ Len(output[3][3]) = 50
    /\ output[4][3][47] = "6"
    /\ output[4][3][48] = "."
    /\ output[4][2][50] = "j"

\* C26: in the schema format_results computes, every field whose name
\* begins with '@' comes before every field whose name does not, whichever
\* the field names are.
C26_MarkedFieldsFirst ==
    (fpc = "exclude_metadata") =>
        \A k, l \in 1..Len(sorted_fields) :
            (Privileged(sorted_fields[k]) /\ ~Privileged(sorted_fields[l])) => k < l

\* The length of a table line: its cells and the 3-character joints.
RECURSIVE CellsLen(_)
CellsLen(line) == IF line = <<>> THEN 0 ELSE Len(Head(line)) + CellsLen(Tail(line))

LineLen(line) == CellsLen(line) + (IF Len(line) > 1 THEN 3 * (Len(line) - 1) ELSE 0)

\* C29: in the table output the header, the dash separator and every data
\* line have the same length, and in each column the header cell, the dash
\* run and every value cell are exactly as wide as the column, which is 50
\* at most; so it is for every schema, field names longer than 50
\* characters included.
C29_TableAligned ==
    Formatted("table") =>
        /\ \A i \in 1..Len(output) : LineLen(output[i]) = LineLen(output[1])
        /\ \A i \in 1..Len(output) : \A k \in 1..Len(sorted_fields) :
              /\ Len(output[i][k]) = ColumnWidth(sorted_fields[k])
              /\ Len(output[i][k]) <= 50

----------------------------------------------------------------------------
\* validate_log_groups, the prefix of a wildcard pattern (SpecValidate).

\* The text of a pattern before its first wildcard.
BeforeWildcard(pattern) ==
    LET first == CHOOSE i \in 1..Len(pattern) :
                    /\ pattern[i] = "*"
                    /\ \A k \in 1..(i - 1) : pattern[k] # "*"
    IN  SubSeq(pattern, 1, first - 1)

\* C25: for a pattern that contains a wildcard, the prefix sent to
\* describe_log_groups is the text of the pattern before the wildcard,
\* wherever the wildcard stands: at the end, in the middle or at the start.
C25_PrefixBeforeWildcard ==
    \A i \in 1..Len(lookups) :
        IsWildcard(log_groups[i]) => lookups[i] = BeforeWildcard(log_groups[i])

----------------------------------------------------------------------------
\* parse_time, the named tokens (SpecTime).

\* The local midnight that begins the local day of the instant ms, back
\* days days, holds at the instant v (both in milliseconds).
LocalMidnight(v, ms, days) ==
    LET wall == LocalTime(local_zone, ms \div 1000)
    IN  /\ v % 1000 = 0
        /\ LocalTime(local_zone, v \div 1000) = wall - (wall % 86400) - days * 86400

\* What parse_time gives for a named token at the instant of the call.
NamedValue(name) == RuleNamed(name, now_ms, local_zone).value

\* C27: at any instant "today" is the local midnight of the current day
\* and "yesterday" the local midnight of the day before, so that
\* yesterday < today <= now; last-hour, last-24h, last-day and last-week
\* are now minus 1 h, 24 h, 1 d and 7 d, not a day boundary.
C27_NamedTokens ==
    LET name == Lower(Stripped)
        today == NamedValue(<<"t", "o", "d", "a", "y">>)
        yesterday == NamedValue(<<"y", "e", "s", "t", "e", "r", "d", "a", "y">>)
        delta_ms == (<<"l", "a", "s", "t", "-", "h", "o", "u", "r">> :> 3600000)
                        @@ (<<"l", "a", "s", "t", "-", "2", "4", "h">> :> 86400000)
                        @@ (<<"l", "a", "s", "t", "-", "d", "a", "y">> :> 86400000)
                        @@ (<<"l", "a", "s", "t", "-", "w", "e", "e", "k">> :> 604800000)
    IN  (TimeCalled /\ RuleMatches(2, Stripped)) =>
            /\ parsed.out = "return"
            /\ name = <<"t", "o", "d", "a", "y">> =>
                  /\ parsed.value = today
                  /\ LocalMidnight(today, now_ms, 0)
            /\ name = <<"y", "e", "s", "t", "e", "r", "d", "a", "y">> =>
                  /\ parsed.value = yesterday
                  /\ LocalMidnight(yesterday, now_ms, 1)
            /\ yesterday < today /\ today <= now_ms
            /\ name \in DOMAIN delta_ms => parsed.value = now_ms - delta_ms[name]

----------------------------------------------------------------------------
\* wait_for_results, the ways out of the polling loop (Spec).

\* Process p takes a step from position at without being interrupted.
StepsFrom(p, at) == pc[p] = at /\ pc'[p] # at /\ ~interrupted'[p]

\* C28: wait_for_results ends exactly when a fetched status is Complete,
\* Failed, Cancelled or Timeout, or a status fetch raises (a user interrupt
\* apart): on one of the four statuses it leaves the loop at once; on every
\* other status, Running or a value outside the enumeration, it sleeps
\* 2 seconds and fetches again, and no count of polls ends the loop.
C28_PollsUntilTerminal ==
    [][\A p \in Procs :
          LET status == response[p].status
              terminal == status \in {"Complete", "Failed", "Cancelled", "Timeout"}
          IN  /\ (pc[p] \in WaitPcs /\ pc'[p] \notin WaitPcs) =>
                    \/ pc[p] = "check_status" /\ terminal
                    \/ pc[p] = "get_query_results" /\ fetch_failed'[p] = fetched'[p]
                    \/ interrupted'[p]
              /\ (StepsFrom(p, "check_status") /\ terminal) => pc'[p] \notin WaitPcs
              /\ (StepsFrom(p, "check_status") /\ ~terminal) => pc'[p] = "sleep"
              /\ StepsFrom(p, "sleep") =>
                    /\ pc'[p] = "sleeping"
                    /\ wake'[p] = clock + 2
                    /\ fetched'[p] = fetched[p]
              /\ StepsFrom(p, "sleeping") => (pc'[p] = "loop_top" /\ clock >= wake[p])
              /\ StepsFrom(p, "loop_top") => pc'[p] = "get_query_results"
              /\ (StepsFrom(p, "get_query_results") /\ fetch_failed'[p] = 0) =>
                    (pc'[p] = "check_status" /\ fetched'[p] = fetched[p] + 1)]_vars

\* The fourth fetch of a call whose first three statuses were not terminal
\* answers with a status outside the enumeration, and the call sleeps again.
C28_Witness ==
    /\ pc[1] = "sleeping"
    /\ fetched[1] = 4
    /\ checked[1] = 4
    /\ response[1].status = "Scheduled"
    /\ Len(slept[1]) = 4

----------------------------------------------------------------------------
\* The Athena executor (SpecAthena).

\* The state the last fetch reported.
LastObserved == IF observed = <<>> THEN "none" ELSE observed[Len(observed)]

\* C30: _wait_for_query_completion returns normally only after the state
\* SUCCEEDED was observed, and exits the process with status 1 on FAILED
\* and on CANCELLED, so that execute_and_download calls
\* download_results_from_s3 only for a query that reached SUCCEEDED; every
\* other state is followed by a sleep of one second and another fetch.
C30_DownloadOnlyAfterSucceeded ==
    /\ (apc \in {"download_results_from_s3", "done"} \/ downloads > 0) =>
          LastObserved = "SUCCEEDED"
    /\ downloads > 0 => (downloads = 1 /\ ~no_download)
    /\ (apc = "done" /\ ~no_download) => downloads = 1
    /\ athena_exit # -1 <=> apc = "exited"
    /\ apc = "exited" => (athena_exit = 1 /\ LastObserved \in {"FAILED", "CANCELLED"})
    /\ (LastObserved \in {"FAILED", "CANCELLED"} /\ apc # "after_loop") =>
          (apc = "exited" /\ downloads = 0)
    /\ \A i \in 1..(Len(observed) - 1) :
          observed[i] \notin {"SUCCEEDED", "FAILED", "CANCELLED"}
    /\ \A i \in 1..Len(sleeps) : sleeps[i] = 1
    /\ apc = "get_query_execution" => Len(sleeps) = Len(observed)
    /\ apc \in {"sleep", "after_loop", "exited", "download_results_from_s3", "done"} =>
          Len(sleeps) = Len(observed) - 1
    /\ apc = "sleep" => LastObserved \in {"QUEUED", "RUNNING"}

\* Two states that are not final, then SUCCEEDED, and the download made.
C30_Witness ==
    /\ apc = "done"
    /\ downloads = 1
    /\ observed = <<"QUEUED", "RUNNING", "SUCCEEDED">>
    /\ sleeps = <<1, 1>>

====
